---- MODULE Spec2Model ----
\* Orbital propagation engine and batch scheduler of kaaroPropagate
\* (backend/app/models/orbital.py, physics/propagator.py, physics/nbody.py,
\* physics/batch.py, data/spice_loader.py, core/integration.py, main.py).
\*
\* Numbers.  The program computes in IEEE doubles; here every real quantity is
\* a fixed-point integer with three decimals (S units per 1.0): lengths in
\* milli-AU, angles in milli-radians, eccentricity in thousandths.  Times are
\* whole days relative to an arbitrary origin.  Optional[X] is a sequence of
\* length 0 (None) or 1.
EXTENDS Integers, Sequences, FiniteSets, TLC

S == 1000
PI == 3142
TWO_PI == 6283
HALF_PI == 1571

None == << >>
Some(x) == << x >>

Abs(x) == IF x < 0 THEN -x ELSE x

\* ---------------------------------------------------------------- numerics
\* np.sin on milli-radians (Bhaskara's rational approximation, after
\* reduction to one turn).
SinHalfTurn(y) ==
    LET p == y * (PI - y) IN (16 * p) \div ((5 * PI * PI - 4 * p) \div S)

Sin(x) ==
    LET y == x % TWO_PI
    IN  IF y <= PI THEN SinHalfTurn(y) ELSE -SinHalfTurn(y - PI)

Cos(x) == Sin(x + HALF_PI)

RECURSIVE ISqrtFrom(_, _)
ISqrtFrom(n, r) ==
    IF r * r <= n THEN r ELSE ISqrtFrom(n, (r + n \div r) \div 2)

\* floor of the square root of a natural number (Newton from above; the
\* start is the largest root whose square is still a 32-bit integer)
ISqrt(n) == IF n < 2 THEN n ELSE ISqrtFrom(n, IF n > 46340 THEN 46340 ELSE n)

\* np.sqrt on a fixed-point value
Sqrt(x) == ISqrt(x * S)

\* arctan on [0, 1]
AtanUnit(z) == (z * (785 + (273 * (S - z)) \div S)) \div S

\* np.arctan2(y, x)
Atan2(y, x) ==
    IF x = 0 /\ y = 0 THEN 0
    ELSE LET ax == Abs(x)
             ay == Abs(y)
             a0 == IF ax >= ay THEN AtanUnit((ay * S) \div ax)
                   ELSE HALF_PI - AtanUnit((ax * S) \div ay)
             a1 == IF x < 0 THEN PI - a0 ELSE a0
         IN  IF y >= 0 THEN a1 ELSE -a1

\* np.linspace(start, end, n): n evenly spaced times, the first at start and
\* (for n > 1) the last at end.
Linspace(start, end, n) ==
    [k \in 1..n |-> IF n = 1 THEN start
                    ELSE start + ((k - 1) * (end - start)) \div (n - 1)]

\* ------------------------------------------------- results and exceptions
Ok(v) == [ok |-> TRUE, val |-> v, err |-> ""]
Raise(msg) == [ok |-> FALSE, val |-> << >>, err |-> msg]

HyperbolicMsg == "Hyperbolic/parabolic orbits not yet implemented"
ZeroDivMsg == "float division by zero"

\* ------------------------------------------------------- orbital elements
KeplerianElements(a, e, i, Omega, omega, M0, epoch) ==
    [semi_major_axis |-> a, eccentricity |-> e, inclination |-> i,
     longitude_ascending_node |-> Omega, argument_of_perihelion |-> omega,
     mean_anomaly |-> M0, epoch |-> epoch]

StateVector(position, velocity, time) ==
    [position |-> position, velocity |-> velocity, time |-> time]

Infinity == 2000000000

perihelion_distance(el) ==
    (el.semi_major_axis * (S - el.eccentricity)) \div S

\* variant: a(1+e) for every eccentricity
aphelion_distance_unguarded(el) ==
    (el.semi_major_axis * (S + el.eccentricity)) \div S

aphelion_distance(el) ==
    IF el.eccentricity >= S THEN Infinity
    ELSE (el.semi_major_axis * (S + el.eccentricity)) \div S

\* 365.25 * a ** 1.5, in whole days
orbital_period(el) ==
    IF el.eccentricity >= S THEN Infinity
    ELSE LET a == el.semi_major_axis
             a15 == (a * Sqrt(a)) \div S
         IN  (1461 * a15) \div (4 * S)

\* ------------------------------------------------------------ Kepler solver
KeplerTol == 1
KeplerMaxIter == 100
E0Threshold == 800

\* variant: the iteration always starts from the mean anomaly
KeplerGuess_from_M(M, e) == M

\* E = M if e < 0.8 else np.pi
KeplerGuess(M, e) == IF e < E0Threshold THEN M ELSE PI

KeplerStep(M, e, E) ==
    LET f == E - (e * Sin(E)) \div S - M
        f_prime == S - (e * Cos(E)) \div S
    IN  E - (f * S) \div f_prime

\* the divisor of the Newton step at E: 1 - e * cos(E)
f_prime(e, E) == S - (e * Cos(E)) \div S

\* abs(E_new - E) < tol: the tolerance 1e-10 is below the resolution, so the
\* step has converged when it no longer moves E.
KeplerConverged(E_new, E) == Abs(E_new - E) < KeplerTol

\* one pass of the loop body; a pass after the `return E_new` changes nothing
KeplerPass(M, e, st) ==
    IF st.converged THEN st
    ELSE LET E_new == KeplerStep(M, e, st.E)
         IN  [E |-> E_new, iterations |-> st.iterations + 1,
              converged |-> KeplerConverged(E_new, st.E)]

\* n passes of the loop body (split in halves to keep the evaluation shallow)
RECURSIVE KeplerLoop(_, _, _, _)
KeplerLoop(M, e, st, n) ==
    IF n = 0 THEN st
    ELSE IF n = 1 THEN KeplerPass(M, e, st)
    ELSE LET half == KeplerLoop(M, e, st, n \div 2)
         IN  IF half.converged THEN half
             ELSE KeplerLoop(M, e, half, n - n \div 2)

\* the run of the Newton loop `for _ in range(max_iter)`: the value returned,
\* the steps taken and whether the return was the one inside the loop
KeplerRun(M, e) ==
    KeplerLoop(M, e, [E |-> KeplerGuess(M, e), iterations |-> 0,
                      converged |-> FALSE], KeplerMaxIter)

\* what the caller receives: the bare eccentric anomaly
solve_kepler_equation(M, e) == KeplerRun(M, e).E

\* nbody.solve_kepler: the same loop, used for the analytic planet positions
solve_kepler(M, e) == KeplerRun(M, e).E

\* ------------------------------------------------- elements -> state vector
MuSun == 296

RotationMatrix(el) ==
    LET cos_O == Cos(el.longitude_ascending_node)
        sin_O == Sin(el.longitude_ascending_node)
        cos_i == Cos(el.inclination)
        sin_i == Sin(el.inclination)
        cos_w == Cos(el.argument_of_perihelion)
        sin_w == Sin(el.argument_of_perihelion)
    IN  [R11 |-> (cos_O * cos_w) \div S - (((sin_O * sin_w) \div S) * cos_i) \div S,
         R12 |-> -((cos_O * sin_w) \div S) - (((sin_O * cos_w) \div S) * cos_i) \div S,
         R21 |-> (sin_O * cos_w) \div S + (((cos_O * sin_w) \div S) * cos_i) \div S,
         R22 |-> -((sin_O * sin_w) \div S) + (((cos_O * cos_w) \div S) * cos_i) \div S,
         R31 |-> (sin_w * sin_i) \div S,
         R32 |-> (cos_w * sin_i) \div S]

Rotate(R, u, v) ==
    << (R.R11 * u + R.R12 * v) \div S,
       (R.R21 * u + R.R22 * v) \div S,
       (R.R31 * u + R.R32 * v) \div S >>

\* variant: the parabolic case takes the elliptical branch
IsElliptic_closed(e) == e <= S

\* the branch test `e < 1.0`
IsElliptic(e) == e < S

\* mean anomaly at `time`: M0 + n * (time - t0) with n = 2*pi / period
\* (n is kept in micro-radians per day so that long periods do not round to 0)
MeanAnomalyAt(el, period, time) ==
    LET n6 == (TWO_PI * S) \div period
    IN  el.mean_anomaly + (n6 * (time - el.epoch)) \div S

\* velocity scale a * n with n = sqrt(mu / a^3), i.e. sqrt(mu / a); mu is
\* 0.000296 AU^3/day^2 (MuSun millionths); speeds are in 1e-4 AU per day
VelocityScale(a) == ISqrt((MuSun * 100 * S) \div a)

\* nu = 2 * arctan2(sqrt(1 + e) * sin(E / 2), sqrt(1 - e) * cos(E / 2))
TrueAnomaly(e, E) ==
    2 * Atan2((Sqrt(S + e) * Sin(E \div 2)) \div S,
              (Sqrt(S - e) * Cos(E \div 2)) \div S)

\* position and velocity in the orbital plane, rotated to the ecliptic frame
StateAtAnomaly(el, time, E, nu, R) ==
    LET a == el.semi_major_axis
        e == el.eccentricity
        ecc == S - (e * Cos(E)) \div S
        r == (a * ecc) \div S
        x_orb == (r * Cos(nu)) \div S
        y_orb == (r * Sin(nu)) \div S
        an == VelocityScale(a)
        vx_orb == -((an * Sin(E)) \div ecc)
        vy_orb == (((an * Sqrt(S - (e * e) \div S)) \div S) * Cos(E)) \div ecc
    IN  StateVector(Rotate(R, x_orb, y_orb), Rotate(R, vx_orb, vy_orb), time)

StateAtEccentricAnomaly(el, time, E) ==
    StateAtAnomaly(el, time, E, TrueAnomaly(el.eccentricity, E), RotationMatrix(el))

\* the elliptical branch (e < 1)
EllipticState(el, time) ==
    StateAtEccentricAnomaly(el, time,
        solve_kepler_equation(MeanAnomalyAt(el, orbital_period(el), time),
                              el.eccentricity))

\* variant: the unbound branch answers with the perihelion point
keplerian_to_cartesian_unguarded(el, time) ==
    IF ~IsElliptic(el.eccentricity)
    THEN Ok(StateVector(<< perihelion_distance(el), 0, 0 >>, << 0, 0, 0 >>, time))
    ELSE IF orbital_period(el) = 0 THEN Raise(ZeroDivMsg)
    ELSE Ok(EllipticState(el, time))

keplerian_to_cartesian(el, time) ==
    IF ~IsElliptic(el.eccentricity) THEN Raise(HyperbolicMsg)
    ELSE IF orbital_period(el) = 0 THEN Raise(ZeroDivMsg)
    ELSE Ok(EllipticState(el, time))

\* ------------------------------------------------------- the two mean motions
\* keplerian_to_cartesian computes a mean motion twice: 2*pi / orbital_period
\* for the mean anomaly and sqrt(mu / a^3) for the velocities.  Both are kept
\* here in units of 1e-8 rad/day; numbers too long for one integer are pairs
\* << high, low >> standing for high * 1e6 + low.
Limb == S * S

\* 2*pi in units of 1e-8 rad
TwoPiFine == 628318531

\* mu = 0.0002959122082855911 AU^3/day^2 in units of 1e-16: 2959122 082856
MuSunHigh == 2959122
MuSunLow == 82856

\* r * r as a pair
SquarePair(r) ==
    LET rh == r \div S
        rl == r % S
        mid == 2 * rh * rl
        low == (mid % S) * S + rl * rl
    IN  << rh * rh + mid \div S + low \div Limb, low % Limb >>

PairLeq(u, v) == u[1] < v[1] \/ (u[1] = v[1] /\ u[2] <= v[2])

\* the pair N divided by the whole number d
PairDiv(N, d) == << N[1] \div d, ((N[1] % d) * Limb + N[2]) \div d >>

\* np.sqrt of a pair: the largest r in lo..hi with r * r <= N
RECURSIVE FineRoot(_, _, _)
FineRoot(lo, hi, N) ==
    IF lo >= hi THEN lo
    ELSE LET m == (lo + hi + 1) \div 2
         IN  IF PairLeq(SquarePair(m), N) THEN FineRoot(m, hi, N)
             ELSE FineRoot(lo, m - 1, N)

\* a ** 1.5 in thousandths (exact when a is a whole square number of AU)
A15(a) == (a * Sqrt(a)) \div S

\* n = 2 * np.pi / elements.orbital_period with orbital_period =
\* 365.25 * a ** 1.5
MeanMotionOfPeriod(el) ==
    LET year == (TwoPiFine \div 1461) * 4 + ((TwoPiFine % 1461) * 4) \div 1461
    IN  (year * S) \div A15(el.semi_major_axis)

\* n = np.sqrt(mu / (a ** 3))
MeanMotionOfMu(el) ==
    LET a3 == (A15(el.semi_major_axis) * A15(el.semi_major_axis)) \div Limb
    IN  FineRoot(0, 4 * Limb, PairDiv(<< MuSunHigh, MuSunLow >>, a3))

\* the (M, e) pairs keplerian_to_cartesian hands to solve_kepler_equation
SolverCallsAt(el, time) ==
    IF IsElliptic(el.eccentricity) /\ orbital_period(el) # 0
    THEN {<< MeanAnomalyAt(el, orbital_period(el), time), el.eccentricity >>}
    ELSE {}

\* the same over the sample times of a range
SolverCallsOver(el, times) ==
    UNION {SolverCallsAt(el, times[k]) : k \in 1..Len(times)}

\* the eccentricities of the planet tables the analytic positions are
\* computed from (nbody.PLANET_ELEMENTS and the inner planets of the
\* planet-position endpoint), in thousandths
PlanetEccentricity ==
    [jupiter |-> 49, saturn |-> 57, uranus |-> 46, neptune |-> 11,
     mercury |-> 206, venus |-> 7, earth |-> 17, mars |-> 93]

\* ------------------------------------------------------ inverse transform
InverseMsg == "Cartesian to Keplerian conversion not yet implemented"

\* variant: a stub that answers with a circular orbit through the position
cartesian_to_keplerian_stub(state) ==
    Ok(KeplerianElements(Abs(state.position[1]) + Abs(state.position[2]),
                         0, 0, 0, 0, 0, state.time))

cartesian_to_keplerian(state) == Raise(InverseMsg)

\* ------------------------------------------------------ two-body propagator
TwoBodyPropagator(el) == [kind |-> "twobody", elements |-> el]

\* TwoBodyPropagator.from_state_vector: cls(cartesian_to_keplerian(state))
from_state_vector(state) ==
    IF cartesian_to_keplerian(state).ok
    THEN Ok(TwoBodyPropagator(cartesian_to_keplerian(state).val))
    ELSE cartesian_to_keplerian(state)

TwoBodyPropagate(p, time) == keplerian_to_cartesian(p.elements, time)

\* [self.propagate(t) for t in times]: the first exception ends the call
RECURSIVE CollectStates(_, _, _, _)
RECURSIVE CollectNext(_, _, _, _, _)
CollectStates(p, times, k, acc) ==
    IF k > Len(times) THEN Ok(acc)
    ELSE CollectNext(p, times, k, acc, TwoBodyPropagate(p, times[k]))

CollectNext(p, times, k, acc, sv) ==
    IF sv.ok THEN CollectStates(p, times, k + 1, Append(acc, sv.val))
    ELSE Raise(sv.err)

TwoBodyPropagateRange(p, start_time, end_time, num_points) ==
    CollectStates(p, Linspace(start_time, end_time, num_points), 1, << >>)

\* --------------------------------------------------------- N-body integrator
\* scipy's solve_ivp is opaque to the program.  Its state y is kept as a term:
\* the six numbers of the initial state followed by one leg
\* <<t_from, t_reached, t_sampled, planets, spice>> per integration, so two
\* states are equal exactly when they were obtained by the same integrations.
\* An integration stops early (status -1, "step size too small") when the
\* orbit meets a singularity of the equations of motion inside the span.
STATUS_OK == 0
STATUS_FAILED == -1

PlanetCode(name) ==
    CASE name = "jupiter" -> 1 [] name = "saturn" -> 2
      [] name = "uranus" -> 4 [] OTHER -> 8

RECURSIVE PlanetsCode(_)
PlanetsCode(planets) ==
    IF planets = << >> THEN 0
    ELSE PlanetCode(Head(planets)) + PlanetsCode(Tail(planets))

Leg(y, t_from, t_reached, t_sampled, p) ==
    y \o << t_from, t_reached, t_sampled, PlanetsCode(p.planets),
            IF p.use_spice THEN 1 ELSE 0 >>

Between(t, t0, t1) == IF t0 <= t1 THEN t0 <= t /\ t <= t1 ELSE t1 <= t /\ t <= t0

\* the last time the integrator reaches when it is asked to go from t0 to t1
ReachedTime(t0, t1, hazard) ==
    LET hit == {h \in hazard : Between(h, t0, t1) /\ h # t0}
    IN  IF hit = {} THEN t1
        ELSE IF t0 <= t1
             THEN (CHOOSE h \in hit : \A g \in hit : h <= g) - 1
             ELSE (CHOOSE h \in hit : \A g \in hit : h >= g) + 1

RECURSIVE SelectSeq2(_, _, _, _)
SelectSeq2(s, t0, t_end, k) ==
    IF k > Len(s) THEN << >>
    ELSE (IF Between(s[k], t0, t_end) THEN << s[k] >> ELSE << >>)
         \o SelectSeq2(s, t0, t_end, k + 1)

\* solve_ivp(fun, t_span = (t0, t1), y0, t_eval = ...): status, the
\* times of the returned samples (those of t_eval that were reached; without
\* t_eval the last accepted step), the samples, and the end of the dense
\* interpolant.
solve_ivp(p, t0, t1, y0, t_eval) ==
    LET t_end == ReachedTime(t0, t1, p.hazard)
        ts == IF t_eval = None THEN << t_end >>
              ELSE SelectSeq2(t_eval[1], t0, t_end, 1)
    IN  [status |-> IF t_end = t1 THEN STATUS_OK ELSE STATUS_FAILED,
         success |-> t_end = t1,
         t |-> ts,
         y |-> [k \in 1..Len(ts) |-> Leg(y0, t0, ts[k], ts[k], p)],
         t_end |-> t_end]

\* solution.sol(time): the dense interpolant, which extrapolates past its end
DenseSol(p, solution, t0, y0, time) ==
    Leg(y0, t0, IF Between(time, t0, solution.t_end) THEN time
                ELSE solution.t_end, time, p)

PosPart(y) == << 0 >> \o y
VelPart(y) == << 1 >> \o y

DefaultPlanets == << "jupiter", "saturn" >>

\* the times at which the orbit of these elements runs into a singularity
\* (a close approach to a perturbing body): a fact of the orbit, not of the code
Hazard(el) == IF el.semi_major_axis = 5204 THEN {30} ELSE {}

\* the fields set by NBodyPropagator.__init__, given the initial state
NBodyFields(el, planets, use_spice, initial_state) ==
    IF ~initial_state.ok THEN Raise(initial_state.err)
    ELSE Ok([kind |-> "nbody", elements |-> el,
             planets |-> IF planets = None \/ planets = Some(<< >>)
                         THEN DefaultPlanets ELSE planets[1],
             use_spice |-> use_spice,
             initial_state |-> initial_state.val.position
                               \o initial_state.val.velocity,
             initial_time |-> el.epoch,
             hazard |-> Hazard(el)])

\* NBodyPropagator.__init__
NBodyPropagator(el, planets, use_spice) ==
    NBodyFields(el, planets, use_spice,
                TwoBodyPropagate(TwoBodyPropagator(el), el.epoch))

NBodySolve(p, time) ==
    solve_ivp(p, p.initial_time, time, p.initial_state, None)

FinalState(final_state, time) ==
    Ok(StateVector(PosPart(final_state), VelPart(final_state), time))

NBodyPropagate(p, time) ==
    FinalState(DenseSol(p, NBodySolve(p, time), p.initial_time,
                        p.initial_state, time), time)

\* the clamp of start_time to the element epoch
ClampStart(p, start_time) ==
    IF start_time < p.initial_time THEN p.initial_time ELSE start_time

\* the integration from the epoch to the start of the range (when needed)
NBodyTempSolve(p, start) ==
    IF start = p.initial_time THEN None
    ELSE Some(solve_ivp(p, p.initial_time, start, p.initial_state, None))

\* y0 = temp_solution.y[:, -1]
LastColumn(p, temp) ==
    IF temp = None THEN p.initial_state ELSE temp[1].y[Len(temp[1].y)]

\* variant: every range is integrated from the initial state
NBodyRangeY0_initial(p, start) == p.initial_state

NBodyRangeY0(p, start) == LastColumn(p, NBodyTempSolve(p, start))

NBodyRangeSolve(p, start_time, end_time, num_points) ==
    LET start == ClampStart(p, start_time)
    IN  solve_ivp(p, start, end_time, NBodyRangeY0(p, start),
                  Some(Linspace(start, end_time, num_points)))

\* for i in range(len(solution.t)): one StateVector per returned sample
SolutionStates(solution) ==
    Ok([k \in 1..Len(solution.t) |->
           StateVector(PosPart(solution.y[k]), VelPart(solution.y[k]),
                       solution.t[k])])

NBodyPropagateRange(p, start_time, end_time, num_points) ==
    SolutionStates(NBodyRangeSolve(p, start_time, end_time, num_points))

\* whether some integration made by the call stopped before its end
SolveFailed(temp) == temp # None /\ temp[1].status = STATUS_FAILED

NBodyRangeFailed(p, start_time, end_time, num_points) ==
    \/ SolveFailed(NBodyTempSolve(p, ClampStart(p, start_time)))
    \/ NBodyRangeSolve(p, start_time, end_time, num_points).status = STATUS_FAILED

PropagateRange(p, start_time, end_time, num_points) ==
    IF p.kind = "nbody" THEN NBodyPropagateRange(p, start_time, end_time, num_points)
    ELSE TwoBodyPropagateRange(p, start_time, end_time, num_points)

\* ------------------------------------------------------- one unit of work
Comet(designation, elements) == [designation |-> designation, elements |-> elements]

TrajectoryResult(designation, success, trajectory, error) ==
    [designation |-> designation, success |-> success,
     trajectory |-> trajectory, error |-> error]

NoElementsMsg == "No orbital elements"

MakePropagator(el, method) ==
    IF method = "nbody" THEN NBodyPropagator(el, Some(DefaultPlanets), FALSE)
    ELSE Ok(TwoBodyPropagator(el))

\* the return of the try block, or the `except Exception` handler
ResultOf(comet, trajectory) ==
    IF trajectory.ok
    THEN TrajectoryResult(comet.designation, TRUE, Some(trajectory.val), None)
    ELSE TrajectoryResult(comet.designation, FALSE, None, Some(trajectory.err))

\* propagator.propagate_range(...), unless the constructor has raised
TrajectoryOf(propagator, start_time, end_time, num_points) ==
    IF ~propagator.ok THEN propagator
    ELSE PropagateRange(propagator.val, start_time, end_time, num_points)

calculate_single_trajectory(comet, start_time, end_time, num_points, method) ==
    IF comet.elements = None
    THEN TrajectoryResult(comet.designation, FALSE, None, Some(NoElementsMsg))
    ELSE ResultOf(comet, TrajectoryOf(MakePropagator(comet.elements[1], method),
                                      start_time, end_time, num_points))

\* ============================================================ batch scheduler
\* A Python dict keyed by designation is the sequence of its values in
\* insertion order: storing under a key already present replaces the value in
\* place, storing under a new key appends.
DictHas(d, designation) == \E i \in 1..Len(d) : d[i].designation = designation

DictGet(d, designation) ==
    d[CHOOSE i \in 1..Len(d) : d[i].designation = designation]

DictPut(d, result) ==
    IF DictHas(d, result.designation)
    THEN [i \in 1..Len(d) |->
              IF d[i].designation = result.designation THEN result ELSE d[i]]
    ELSE Append(d, result)

\* str() of a float holding a whole number of days
FormatFloat(x) == ToString(x) \o ".0"

_get_cache_key(designation, start, end, points, method) ==
    designation \o ":" \o FormatFloat(start) \o ":" \o FormatFloat(end)
        \o ":" \o ToString(points) \o ":" \o method

EmptyCache == [k \in {} |-> None]

\* batch.py: return len(self.cache)
get_cache_size(c) == Cardinality(DOMAIN c)

\* variant: a cache that holds the most recent entry only
CacheStore_latest(c, key, result) == [k \in {key} |-> result]

CacheStore(c, key, result) ==
    [k \in DOMAIN c \cup {key} |-> IF k = key THEN result ELSE c[k]]

\* variant: the success test of the store is inverted
ShouldStore_inverted(enabled, result) == enabled /\ ~result.success

\* batch.py: if self.cache_enabled and result.success
ShouldStore(enabled, result) == enabled /\ result.success

CpuCount == 2

Min(a, b) == IF a < b THEN a ELSE b

ResolveWorkers(max_workers, method, n) ==
    IF max_workers = None
    THEN IF method = "nbody" THEN Min(CpuCount, n) ELSE Min(CpuCount * 2, n)
    ELSE max_workers[1]

executor_class(method) == IF method = "nbody" THEN "process" ELSE "thread"

MaxWorkersMsg == "max_workers must be greater than 0"

BrokenPoolMsg ==
    "A process in the process pool was terminated abruptly while the future was running or pending."

ExecutionError(comet) ==
    TrajectoryResult(comet.designation, FALSE, None,
                     Some("Execution error: " \o BrokenPoolMsg))

Unit(comet, state, where, outcome) ==
    [comet |-> comet, state |-> state, where |-> where, outcome |-> outcome]

\* variant: the caller goes on as soon as one future is done
AllFinished_first(units) == \E k \in 1..Len(units) : units[k].state = "done"

\* as_completed is exhausted and the executor has shut down
AllFinished(units) == \A k \in 1..Len(units) : units[k].state = "done"

Running(units) == {k \in 1..Len(units) : units[k].state = "running"}

\* sum(1 for r in results.values() if r.success)
successful(results) ==
    Cardinality({i \in 1..Len(results) : results[i].success})

Statistics(comets, results, cache_hits, cache_misses, method, parallel) ==
    [total_objects |-> Len(comets),
     successful |-> successful(results),
     failed |-> Len(results) - successful(results),
     cache_hits |-> cache_hits,
     cache_misses |-> cache_misses,
     method |-> method,
     parallel |-> parallel]

\* ===================================================================== state
VARIABLES
    prop,           \* the propagator object under test (None before construction)
    ret,            \* what the last call gave its caller
    probe,          \* facts of the last call the caller does not see
    cache_enabled,  \* BatchTrajectoryCalculator.cache_enabled
    cache,          \* BatchTrajectoryCalculator.cache: key -> TrajectoryResult
    call,           \* per caller: the locals of its calculate() call
    returned_ok,    \* history: (five values, result) of every successful
                    \* result calculate has returned since the last clear_cache
    spice_manager,  \* spice_loader._spice_manager (None before first use)
    kernels_on_disk, \* whether the kernel files can be loaded
    printed,        \* the lines the last lookup wrote to standard output
    lookup,         \* what the last planet-position call gave its caller
    run,            \* the derivative evaluations of the propagation in progress
    http,           \* the endpoint: request in progress and its response
    performance_metrics \* main.performance_metrics (counts; no wall-clock times)

propVars == << prop, ret, probe >>
batchVars == << cache_enabled, cache, call, returned_ok >>
ephVars == << spice_manager, kernels_on_disk, printed, lookup, run >>
apiVars == << http, performance_metrics >>
vars == << prop, ret, probe, cache_enabled, cache, call, returned_ok,
          spice_manager, kernels_on_disk, printed, lookup, run, http,
          performance_metrics >>

\* ------------------------------------------------------------------- inputs
ElEllipse == KeplerianElements(1000, 500, 300, 200, 100, 0, 0)
ElNearParabolic == KeplerianElements(1000, 990, 300, 200, 100, 0, 0)
ElParabolic == KeplerianElements(1000, 1000, 300, 200, 100, 0, 0)
ElHyperbolic == KeplerianElements(1000, 1200, 300, 200, 100, 0, 0)
ElDegenerate == KeplerianElements(0, 500, 300, 200, 100, 0, 0)
ElCrosser == KeplerianElements(5204, 500, 300, 200, 100, 0, 0)

ElementsPool ==
    {ElEllipse, ElNearParabolic, ElParabolic, ElHyperbolic, ElDegenerate, ElCrosser}

Times == {-245, 0, 60}

TimeRange(start, end, n) == [start |-> start, end |-> end, n |-> n]

Ranges == {TimeRange(0, 60, 3), TimeRange(20, 60, 3), TimeRange(40, 60, 2),
           TimeRange(-245, 0, 2)}

Methods == {"twobody", "nbody"}

PlanetChoices == {None, Some(<< >>), Some(<< "jupiter" >>)}

Designations == {"1P", "2P"}

AllComets ==
    {Comet(d, el) : d \in Designations,
                    el \in {None} \cup {Some(e) : e \in ElementsPool}}

\* the unit of work on every input of the model, computed once
Single ==
    [c \in AllComets, rng \in Ranges, m \in Methods |->
        calculate_single_trajectory(c, rng.start, rng.end, rng.n, m)]

\* what a direct call of a propagator leaves behind
NoProbe == [solver_failed |-> FALSE, kepler |-> None]

Ret(op, el, r) == [op |-> op, el |-> el, ok |-> r.ok, val |-> r.val, err |-> r.err]

InitPropVars ==
    /\ prop = None
    /\ ret = Ret("none", None, Ok(<< >>))
    /\ probe = NoProbe

\* ======================================================= planet positions
\* spice_loader.py and nbody.get_planet_position.  A position is kept as the
\* term << source, body, time >>.  The kernels cover the days in Coverage.
PLANET_ELEMENTS == {"jupiter", "saturn", "uranus", "neptune"}

naif_ids ==
    {"SOLAR SYSTEM BARYCENTER", "SUN", "MERCURY BARYCENTER", "VENUS BARYCENTER",
     "EARTH BARYCENTER", "MARS BARYCENTER", "JUPITER BARYCENTER",
     "SATURN BARYCENTER", "URANUS BARYCENTER", "NEPTUNE BARYCENTER", "MERCURY",
     "VENUS", "EARTH", "MARS", "JUPITER", "SATURN", "URANUS", "NEPTUNE"}

\* the names spice.bodn2c resolves beyond the table
bodn2c == {"MOON"}

Coverage == 0..50

PlanetNames == {"jupiter", "Jupiter", "moon", "vulcan"}

\* str.upper()
Upper(name) ==
    CASE name \in {"jupiter", "Jupiter", "JUPITER"} -> "JUPITER"
      [] name \in {"saturn", "SATURN"} -> "SATURN"
      [] name \in {"moon", "MOON"} -> "MOON"
      [] name \in {"vulcan", "VULCAN"} -> "VULCAN"
      [] OTHER -> name

_get_naif_id(body_name) ==
    IF Upper(body_name) \in naif_ids \cup bodn2c THEN Ok(Upper(body_name))
    ELSE Raise("Unknown body: " \o body_name)

\* print(f"Error getting position for {planet_name}: {e}"); the line is
\* kept with the time of the query it belongs to
ErrorLine(planet_name, time, e) ==
    [text |-> "Error getting position for", planet |-> planet_name,
     time |-> Some(time), error |-> e]

LoadLine(loaded) ==
    [text |-> IF loaded THEN "SPICE kernels loaded successfully"
              ELSE "Warning: Kernel directory not found",
     planet |-> "", time |-> None, error |-> ""]

InsufficientDataMsg == "SPICE(SPKINSUFFDATA)"

Answer(val, lines, manager) == [val |-> val, lines |-> lines, manager |-> manager]

\* SPICEManager.get_planet_position
SPICEManager_get_planet_position(m, planet_name, time) ==
    IF ~m.kernels_loaded THEN Answer(None, {}, Some(m))
    ELSE IF ~_get_naif_id(planet_name).ok
    THEN Answer(None, {ErrorLine(planet_name, time, _get_naif_id(planet_name).err)},
                Some(m))
    ELSE IF time \notin Coverage
    THEN Answer(None, {ErrorLine(planet_name, time, InsufficientDataMsg)}, Some(m))
    ELSE Answer(Some(<< "spice", _get_naif_id(planet_name).val, time >>), {}, Some(m))

\* SPICEManager.load_kernels
load_kernels(m, on_disk) ==
    IF m.kernels_loaded THEN Answer(TRUE, {}, Some(m))
    ELSE Answer(on_disk, {LoadLine(on_disk)}, Some([kernels_loaded |-> on_disk]))

\* SPICEManager.__init__
SPICEManager(on_disk) == load_kernels([kernels_loaded |-> FALSE], on_disk)

get_spice_manager(manager, on_disk) ==
    IF manager = None THEN SPICEManager(on_disk) ELSE Answer(TRUE, {}, manager)

QueryManager(got, planet_name, time) ==
    IF ~got.manager[1].kernels_loaded THEN Answer(None, got.lines, got.manager)
    ELSE Answer(SPICEManager_get_planet_position(got.manager[1], planet_name, time).val,
                got.lines \cup
                SPICEManager_get_planet_position(got.manager[1], planet_name, time).lines,
                got.manager)

get_planet_position_spice(manager, on_disk, planet_name, time) ==
    QueryManager(get_spice_manager(manager, on_disk), planet_name, time)

Position(ok, val, source, err, sp) ==
    [ok |-> ok, val |-> val, source |-> source, err |-> err,
     spice |-> sp.val, lines |-> sp.lines, manager |-> sp.manager]

FallBack(planet_name, time, sp) ==
    IF sp.val # None THEN Position(TRUE, sp.val, "spice", "", sp)
    ELSE IF planet_name \notin PLANET_ELEMENTS
    THEN Position(FALSE, None, "none", "KeyError: " \o planet_name, sp)
    ELSE Position(TRUE, Some(<< "analytic", planet_name, time >>), "analytic", "", sp)

\* nbody.get_planet_position
get_planet_position(manager, on_disk, planet_name, time, use_spice) ==
    FallBack(planet_name, time,
             IF use_spice
             THEN get_planet_position_spice(manager, on_disk, Upper(planet_name), time)
             ELSE Answer(None, {}, manager))

Evaluation(t, planet, source) == [t |-> t, planet |-> planet, source |-> source]

\* the planet loop of nbody_derivatives(t, state, planets, use_spice): r is
\* the run so far, k the index of the next planet
RECURSIVE PlanetLoop(_, _, _, _)
AfterPlanet(r, on_disk, t, k, pos) ==
    IF ~pos.ok
    THEN [r EXCEPT !.active = FALSE, !.err = pos.err, !.manager = pos.manager,
                   !.lines = r.lines \cup pos.lines]
    ELSE PlanetLoop([r EXCEPT !.manager = pos.manager,
                              !.lines = r.lines \cup pos.lines,
                              !.evals = r.evals \cup
                                  {Evaluation(t, r.planets[k], pos.source)}],
                    on_disk, t, k + 1)

PlanetLoop(r, on_disk, t, k) ==
    IF k > Len(r.planets) THEN r
    ELSE AfterPlanet(r, on_disk, t, k,
                     get_planet_position(r.manager, on_disk, r.planets[k], t,
                                         r.use_spice))

nbody_derivatives(r, on_disk, t) == PlanetLoop(r, on_disk, t, 1)

IdleRun ==
    [active |-> FALSE, planets |-> << >>, use_spice |-> FALSE, evals |-> {},
     lines |-> {}, err |-> "", manager |-> None]

NoLookup == [op |-> "none"]

InitEphVars ==
    /\ spice_manager = None
    /\ printed = {}
    /\ lookup = NoLookup
    /\ run = IdleRun

\* ============================================================ batch calculator
MaxBatch == 2

CometA == Comet("1P", Some(ElEllipse))
CometB == Comet("1P", Some(ElParabolic))
CometC == Comet("2P", None)
CometA2 == Comet("1P", Some(ElCrosser))

BatchPool == {CometA, CometB, CometC}

ConcPool == {CometA, CometA2}

RECURSIVE ListsUpTo(_, _)
ListsUpTo(pool, n) ==
    IF n = 0 THEN {<< >>}
    ELSE LET shorter == ListsUpTo(pool, n - 1)
         IN  shorter \cup {Append(l, c) : l \in {s \in shorter : Len(s) = n - 1},
                                          c \in pool}

BatchLists == ListsUpTo(BatchPool, MaxBatch)

BatchRanges == {TimeRange(0, 60, 3), TimeRange(40, 60, 2)}

\* the time grids and methods the single caller asks for
CallShapes ==
    {[rng |-> TimeRange(0, 60, 3), method |-> "twobody"],
     [rng |-> TimeRange(0, 60, 3), method |-> "nbody"],
     [rng |-> TimeRange(40, 60, 2), method |-> "twobody"]}

Modes ==
    {[parallel |-> FALSE, max_workers |-> None]}
        \cup {[parallel |-> TRUE, max_workers |-> w] :
                  w \in {None, Some(0), Some(1)}}

Callers == {1, 2}

IdleCall ==
    [pc |-> "idle", comets |-> << >>, start_time |-> 0, end_time |-> 0,
     num_points |-> 0, method |-> "twobody", parallel |-> FALSE,
     max_workers |-> None, i |-> 0, cache_hits |-> 0, cache_misses |-> 0,
     comets_to_calculate |-> << >>, hit |-> << >>, results |-> << >>,
     units |-> << >>, pool_broken |-> FALSE, new_results |-> << >>, j |-> 0,
     out |-> None, err |-> "", known |-> {}, cache_at_call |-> EmptyCache,
     overlapped |-> FALSE]

Active(c) == c.pc \notin {"idle", "returned", "raised"}

CallRange(c) == TimeRange(c.start_time, c.end_time, c.num_points)

CallKey(c, designation) ==
    _get_cache_key(designation, c.start_time, c.end_time, c.num_points, c.method)

\* the five values a result of this call was computed for
FiveTuple(c, designation) ==
    << designation, c.start_time, c.end_time, c.num_points, c.method >>

RECURSIVE calculate_trajectories_sequential(_, _, _)
calculate_trajectories_sequential(comets, rng, method) ==
    IF comets = << >> THEN << >>
    ELSE DictPut(calculate_trajectories_sequential(
                     SubSeq(comets, 1, Len(comets) - 1), rng, method),
                 Single[comets[Len(comets)], rng, method])

\* ------------------------------------------------------ performance metrics
\* the length errors.recent is cut to
RecentLimit == 10

\* performance_metrics as the module is loaded
InitialMetrics ==
    [trajectory_calculations |->
         [total |-> 0, twobody |-> [count |-> 0], nbody |-> [count |-> 0]],
     errors |-> [total |-> 0, by_type |-> [t \in {} |-> 0], recent |-> << >>]]

\* by_type with one more error of the type (a new type starts from 0)
CountError(by_type, error_type) ==
    [t \in DOMAIN by_type \cup {error_type} |->
        IF t = error_type
        THEN (IF t \in DOMAIN by_type THEN by_type[t] ELSE 0) + 1
        ELSE by_type[t]]

\* variant: the newest entry is the one dropped
TrimRecent_newest(recent) ==
    IF Len(recent) > RecentLimit THEN SubSeq(recent, 1, Len(recent) - 1) ELSE recent

\* if len(recent) > 10: recent.pop(0)
TrimRecent(recent) ==
    IF Len(recent) > RecentLimit THEN Tail(recent) ELSE recent

NoDetails == [k \in {} |-> ""]

\* log_error; now is the reading of the clock
log_error(m, now, error_type, message, details) ==
    [m EXCEPT !.errors =
        [total |-> m.errors.total + 1,
         by_type |-> CountError(m.errors.by_type, error_type),
         recent |-> TrimRecent(Append(m.errors.recent,
                        [timestamp |-> now, type |-> error_type,
                         message |-> message, details |-> details]))]]

\* no request has reached the batch endpoint
IdleHttp ==
    [pc |-> "idle", request |-> None, not_found |-> << >>, response |-> None]

InitApiVars == http = IdleHttp /\ performance_metrics = InitialMetrics

InitBatch ==
    /\ cache = EmptyCache
    /\ call = [t \in Callers |-> IdleCall]
    /\ returned_ok = {}

\* calculate(): entry, up to the start of the cache loop
EnterCalculate(t, comets, rng, method, mode) ==
    /\ ~Active(call[t])
    /\ LET started ==
               [IdleCall EXCEPT
                   !.comets = comets,
                   !.start_time = rng.start,
                   !.end_time = rng.end,
                   !.num_points = rng.n,
                   !.method = method,
                   !.parallel = mode.parallel,
                   !.max_workers = mode.max_workers,
                   !.pc = IF cache_enabled /\ comets # << >>
                          THEN "check" ELSE "dispatch",
                   !.i = 1,
                   !.hit = [k \in 1..Len(comets) |-> FALSE],
                   !.comets_to_calculate = IF cache_enabled THEN << >> ELSE comets,
                   !.cache_misses = IF cache_enabled THEN 0 ELSE Len(comets),
                   !.known = returned_ok,
                   !.cache_at_call = cache,
                   !.overlapped = \E u \in Callers \ {t} : Active(call[u])]
       IN  call' = [u \in Callers |->
                       IF u = t THEN started
                       ELSE IF Active(call[u])
                            THEN [call[u] EXCEPT !.overlapped = TRUE]
                            ELSE call[u]]
    /\ UNCHANGED << cache_enabled, cache, returned_ok, propVars, ephVars >>

\* a direct call of calculate
Calculate(t, comets, rng, method, mode) ==
    /\ EnterCalculate(t, comets, rng, method, mode)
    /\ UNCHANGED apiVars

\* one pass of the cache loop
CheckCache(t) ==
    /\ call[t].pc = "check"
    /\ LET c == call[t]
           comet == c.comets[c.i]
           cache_key == CallKey(c, comet.designation)
           last == c.i = Len(c.comets)
       IN  call' = [call EXCEPT ![t] =
               IF cache_key \in DOMAIN cache
               THEN [c EXCEPT !.results = DictPut(c.results, cache[cache_key]),
                              !.cache_hits = c.cache_hits + 1,
                              !.hit[c.i] = TRUE,
                              !.i = c.i + 1,
                              !.pc = IF last THEN "dispatch" ELSE "check"]
               ELSE [c EXCEPT !.comets_to_calculate =
                                   Append(c.comets_to_calculate, comet),
                              !.cache_misses = c.cache_misses + 1,
                              !.i = c.i + 1,
                              !.pc = IF last THEN "dispatch" ELSE "check"]]
    /\ UNCHANGED << cache_enabled, cache, returned_ok, propVars, ephVars, apiVars >>

\* the missing trajectories are handed to the pool or computed in the caller
Dispatch(t) ==
    /\ call[t].pc = "dispatch"
    /\ LET c == call[t]
           todo == c.comets_to_calculate
           workers == ResolveWorkers(c.max_workers, c.method, Len(todo))
       IN  call' = [call EXCEPT ![t] =
               IF todo = << >> THEN [c EXCEPT !.pc = "stats"]
               ELSE IF c.parallel
               THEN IF workers <= 0
                    THEN [c EXCEPT !.pc = "raised", !.err = MaxWorkersMsg]
                    ELSE [c EXCEPT
                             !.units = [k \in 1..Len(todo) |->
                                           Unit(todo[k], "pending",
                                                executor_class(c.method), None)],
                             !.pc = "collect"]
               ELSE [c EXCEPT
                        !.units = [k \in 1..Len(todo) |->
                                      Unit(todo[k], "done", "caller",
                                           Some(Single[todo[k], CallRange(c),
                                                       c.method]))],
                        !.new_results = calculate_trajectories_sequential(
                                            todo, CallRange(c), c.method),
                        !.j = 1,
                        !.pc = "update"]]
    /\ UNCHANGED << cache_enabled, cache, returned_ok, propVars, ephVars, apiVars >>

\* a worker takes the next submitted task
UnitStart(t, k) ==
    /\ call[t].pc = "collect"
    /\ k <= Len(call[t].units)
    /\ LET c == call[t]
           workers == ResolveWorkers(c.max_workers, c.method, Len(c.units))
       IN  /\ c.units[k].state = "pending"
           /\ \A m \in 1..(k - 1) : c.units[m].state # "pending"
           /\ Cardinality(Running(c.units)) < workers
           /\ call' = [call EXCEPT ![t].units[k].state = "running"]
    /\ UNCHANGED << cache_enabled, cache, returned_ok, propVars, ephVars, apiVars >>

\* the body of the as_completed loop for the future of unit k
Collected(c, k, broken, result) ==
    [c EXCEPT !.units[k] = Unit(c.units[k].comet, "done", c.units[k].where,
                                Some(result)),
              !.pool_broken = broken,
              !.new_results = DictPut(c.new_results, result)]

\* what the future of a unit holds: the worker's return value, or the
\* exception of a pool whose worker process has died
FutureResult(c, comet, broken) ==
    IF broken THEN ExecutionError(comet)
    ELSE Single[comet, CallRange(c), c.method]

\* a future completes and as_completed hands it to the collecting loop
UnitFinish(t, k, dies) ==
    /\ call[t].pc = "collect"
    /\ k <= Len(call[t].units)
    /\ call[t].units[k].state = "running"
    /\ dies => call[t].units[k].where = "process"
    /\ call' = [call EXCEPT ![t] =
           Collected(call[t], k, dies \/ call[t].pool_broken,
                     FutureResult(call[t], call[t].units[k].comet,
                                  dies \/ call[t].pool_broken))]
    /\ UNCHANGED << cache_enabled, cache, returned_ok, propVars, ephVars, apiVars >>

\* calculate_trajectories_parallel returns its map
EndCollect(t) ==
    /\ call[t].pc = "collect"
    /\ AllFinished(call[t].units)
    /\ call' = [call EXCEPT ![t].pc = "update", ![t].j = 1]
    /\ UNCHANGED << cache_enabled, cache, returned_ok, propVars, ephVars, apiVars >>

\* one pass of the loop over new_results.items()
UpdateCache(t) ==
    /\ call[t].pc = "update"
    /\ LET c == call[t]
           result == c.new_results[c.j]
           cache_key == CallKey(c, result.designation)
       IN  /\ call' = [call EXCEPT ![t] =
                  [c EXCEPT !.results = DictPut(c.results, result),
                            !.j = c.j + 1,
                            !.pc = IF c.j = Len(c.new_results)
                                   THEN "stats" ELSE "update"]]
           /\ cache' = IF ShouldStore(cache_enabled, result)
                       THEN CacheStore(cache, cache_key, result)
                       ELSE cache
    /\ UNCHANGED << cache_enabled, returned_ok, propVars, ephVars, apiVars >>

\* statistics and return
Return(t) ==
    /\ call[t].pc = "stats"
    /\ LET c == call[t]
           stats == Statistics(c.comets, c.results, c.cache_hits,
                               c.cache_misses, c.method, c.parallel)
       IN  /\ call' = [call EXCEPT ![t].pc = "returned",
                                   ![t].out = Some([results |-> c.results,
                                                    statistics |-> stats])]
           /\ returned_ok' =
                  IF cache_enabled
                  THEN returned_ok \cup
                       {<< FiveTuple(c, c.results[n].designation), c.results[n] >> :
                            n \in {m \in 1..Len(c.results) : c.results[m].success}}
                  ELSE returned_ok
    /\ UNCHANGED << cache_enabled, cache, propVars, ephVars, apiVars >>

ClearCache(t) ==
    /\ ~Active(call[t])
    /\ cache' = EmptyCache
    /\ returned_ok' = {}
    /\ UNCHANGED << cache_enabled, call, propVars, ephVars, apiVars >>

Init ==
    /\ cache_enabled \in BOOLEAN
    /\ InitBatch
    /\ InitPropVars
    /\ kernels_on_disk = TRUE
    /\ InitEphVars
    /\ InitApiVars

Next ==
    \/ \E comets \in BatchLists, shape \in CallShapes, mode \in Modes :
          Calculate(1, comets, shape.rng, shape.method, mode)
    \/ CheckCache(1)
    \/ Dispatch(1)
    \/ \E k \in 1..MaxBatch : UnitStart(1, k)
    \/ \E k \in 1..MaxBatch, dies \in BOOLEAN : UnitFinish(1, k, dies)
    \/ EndCollect(1)
    \/ UpdateCache(1)
    \/ Return(1)
    \/ ClearCache(1)

Spec == Init /\ [][Next]_vars

\* --------------------------------------------- two callers on one calculator
ConcLists == {<< c >> : c \in ConcPool}

InitConc ==
    /\ cache_enabled = TRUE
    /\ InitBatch
    /\ InitPropVars
    /\ kernels_on_disk = TRUE
    /\ InitEphVars
    /\ InitApiVars

NextConc ==
    \E t \in Callers :
        \/ \E comets \in ConcLists, rng \in BatchRanges, par \in BOOLEAN :
              Calculate(t, comets, rng, "twobody",
                        [parallel |-> par, max_workers |-> None])
        \/ CheckCache(t)
        \/ Dispatch(t)
        \/ UnitStart(t, 1)
        \/ UnitFinish(t, 1, FALSE)
        \/ EndCollect(t)
        \/ UpdateCache(t)
        \/ Return(t)

SpecConc == InitConc /\ [][NextConc]_vars

\* ====================================================== direct propagator use
\* the Kepler run behind a two-body state, when there is one
KeplerProbe(el, time) ==
    IF IsElliptic(el.eccentricity) /\ orbital_period(el) # 0
    THEN Some(KeplerRun(MeanAnomalyAt(el, orbital_period(el), time),
                        el.eccentricity))
    ELSE None

PNewTwoBody(el) ==
    /\ prop' = Some(TwoBodyPropagator(el))
    /\ ret' = Ret("TwoBodyPropagator", Some(el), Ok(<< >>))
    /\ probe' = NoProbe
    /\ UNCHANGED << batchVars, ephVars, apiVars >>

PNewNBody(el, planets, use_spice) ==
    LET made == NBodyPropagator(el, planets, use_spice)
    IN  /\ prop' = IF made.ok THEN Some(made.val) ELSE prop
        /\ ret' = Ret("NBodyPropagator", Some(el),
                      IF made.ok THEN Ok(<< >>) ELSE made)
        /\ probe' = [solver_failed |-> FALSE, kepler |-> KeplerProbe(el, el.epoch),
                     planets_arg |-> planets, use_spice_arg |-> use_spice,
                     solver_args |-> SolverCallsAt(el, el.epoch)]
        /\ UNCHANGED << batchVars, ephVars, apiVars >>

\* variant: a propagator that keeps the state it last integrated to
PPropagate_advancing(time) ==
    /\ prop # None
    /\ LET p == prop[1]
       IN  /\ ret' = Ret("propagate", Some(p.elements),
                         IF p.kind = "nbody"
                         THEN Ok(Some(NBodyPropagate(p, time).val))
                         ELSE LET r == TwoBodyPropagate(p, time)
                              IN  IF r.ok THEN Ok(Some(r.val)) ELSE r)
           /\ probe' = [solver_failed |-> FALSE, kepler |-> None, time |-> time,
                        previous |-> ret.op]
           /\ prop' = IF p.kind = "nbody"
                      THEN Some([p EXCEPT !.initial_time = time])
                      ELSE prop
    /\ UNCHANGED << batchVars, ephVars, apiVars >>

PPropagate(time) ==
    /\ prop # None
    /\ LET p == prop[1]
       IN  IF p.kind = "nbody"
           THEN /\ ret' = Ret("propagate", Some(p.elements),
                              LET r == NBodyPropagate(p, time)
                              IN  Ok(Some(r.val)))
                /\ probe' = [solver_failed |->
                                 NBodySolve(p, time).status = STATUS_FAILED,
                             kepler |-> None, time |-> time,
                             previous |-> ret.op, solver_args |-> {}]
           ELSE /\ ret' = Ret("propagate", Some(p.elements),
                              LET r == TwoBodyPropagate(p, time)
                              IN  IF r.ok THEN Ok(Some(r.val)) ELSE r)
                /\ probe' = [solver_failed |-> FALSE,
                             kepler |-> KeplerProbe(p.elements, time),
                             time |-> time, previous |-> ret.op,
                             solver_args |-> SolverCallsAt(p.elements, time)]
    /\ UNCHANGED << prop, batchVars, ephVars, apiVars >>

PPropagateRange(rng) ==
    /\ prop # None
    /\ LET p == prop[1]
       IN  /\ ret' = Ret("propagate_range", Some(p.elements),
                         PropagateRange(p, rng.start, rng.end, rng.n))
           /\ probe' = [solver_failed |->
                            /\ p.kind = "nbody"
                            /\ NBodyRangeFailed(p, rng.start, rng.end, rng.n),
                        kepler |-> None,
                        requested |-> rng.n, rng |-> rng,
                        previous |-> ret.op,
                        solver_args |->
                            IF p.kind = "nbody" THEN {}
                            ELSE SolverCallsOver(p.elements,
                                     Linspace(rng.start, rng.end, rng.n))]
    /\ UNCHANGED << prop, batchVars, ephVars, apiVars >>

\* a call of the solver itself, with the mean anomaly a propagation would pass
PSolveKepler(el, time) ==
    /\ IsElliptic(el.eccentricity) /\ orbital_period(el) # 0
    /\ LET M == MeanAnomalyAt(el, orbital_period(el), time)
       IN  /\ ret' = Ret("solve_kepler_equation", Some(el),
                         Ok(Some(solve_kepler_equation(M, el.eccentricity))))
           /\ probe' = [solver_failed |-> FALSE,
                        kepler |-> Some(KeplerRun(M, el.eccentricity)),
                        args |-> << M, el.eccentricity >>]
    /\ UNCHANGED << prop, batchVars, ephVars, apiVars >>

\* the mean anomalies and eccentricities the solver is called with directly
\* (mean anomalies outside one turn go with e <= 0.8, where the iterates stay
\* within the integer range)
MeanAnomalies == {0, 100, 1571, 3142, 6283}

Eccentricities == {0, 500, 799, 800, 990, 999}

SolverArguments ==
    {<< M, e >> : M \in MeanAnomalies, e \in Eccentricities}
        \cup {<< M, e >> : M \in {-3000, 10000}, e \in {0, 500, 799, 800}}

\* a call of the solver with arguments of the caller's choice
PSolveKeplerWith(M, e) ==
    /\ ret' = Ret("solve_kepler_equation", None,
                  Ok(Some(solve_kepler_equation(M, e))))
    /\ probe' = [solver_failed |-> FALSE, kepler |-> Some(KeplerRun(M, e)),
                 args |-> << M, e >>]
    /\ UNCHANGED << prop, batchVars, ephVars, apiVars >>

\* the state vectors handed to the inverse transform
StateVectors ==
    {StateVector(<< 1000, 0, 0 >>, << 0, 172, 0 >>, 0),
     StateVector(<< 0, 0, 0 >>, << 0, 0, 0 >>, 60)}

\* a call of cartesian_to_keplerian
PCartesianToKeplerian(state) ==
    /\ ret' = Ret("cartesian_to_keplerian", None,
                  IF cartesian_to_keplerian(state).ok
                  THEN Ok(Some(cartesian_to_keplerian(state).val))
                  ELSE cartesian_to_keplerian(state))
    /\ probe' = [solver_failed |-> FALSE, kepler |-> None, state |-> state]
    /\ UNCHANGED << prop, batchVars, ephVars, apiVars >>

\* a call of TwoBodyPropagator.from_state_vector; the caller keeps the
\* propagator it gets
PFromStateVector(state) ==
    /\ prop' = IF from_state_vector(state).ok
               THEN Some(from_state_vector(state).val) ELSE prop
    /\ ret' = Ret("from_state_vector", None,
                  IF from_state_vector(state).ok THEN Ok(<< >>)
                  ELSE from_state_vector(state))
    /\ probe' = [solver_failed |-> FALSE, kepler |-> None, state |-> state]
    /\ UNCHANGED << batchVars, ephVars, apiVars >>

\* the elements whose derived properties are read
PropertyElements ==
    {KeplerianElements(a, e, 300, 200, 100, 0, 0) :
         a \in {1000, 5204, 17800}, e \in {0, 500, 967, 1000, 1200}}

\* a read of the three derived properties of KeplerianElements
PProperties(el) ==
    /\ ret' = Ret("properties", Some(el),
                  Ok(Some([orbital_period |-> orbital_period(el),
                           aphelion_distance |-> aphelion_distance(el),
                           perihelion_distance |-> perihelion_distance(el)])))
    /\ probe' = NoProbe
    /\ UNCHANGED << prop, batchVars, ephVars, apiVars >>

PSingle(comet, rng, method) ==
    /\ ret' = Ret("calculate_single_trajectory", comet.elements,
                  Ok(Some(Single[comet, rng, method])))
    /\ probe' = [solver_failed |-> FALSE, kepler |-> None, method |-> method]
    /\ UNCHANGED << prop, batchVars, ephVars, apiVars >>

NextProp ==
    \/ \E el \in ElementsPool : PNewTwoBody(el)
    \/ \E el \in ElementsPool, pl \in PlanetChoices, sp \in BOOLEAN :
          PNewNBody(el, pl, sp)
    \/ \E t \in Times : PPropagate(t)
    \/ \E rng \in Ranges : PPropagateRange(rng)
    \/ \E el \in ElementsPool, t \in Times : PSolveKepler(el, t)
    \/ \E a \in SolverArguments : PSolveKeplerWith(a[1], a[2])
    \/ \E el \in PropertyElements : PProperties(el)
    \/ \E state \in StateVectors : PCartesianToKeplerian(state)
    \/ \E state \in StateVectors : PFromStateVector(state)
    \/ \E c \in AllComets, rng \in Ranges, m \in Methods : PSingle(c, rng, m)

InitProp ==
    /\ cache_enabled = TRUE
    /\ InitBatch
    /\ InitPropVars
    /\ kernels_on_disk = TRUE
    /\ InitEphVars
    /\ InitApiVars

SpecProp == InitProp /\ [][NextProp]_vars

\* ====================================================== MPC records
\* the fields of an MPC record the conversion reads: distances in
\* thousandths of an AU, angles in whole degrees, times in days
MPCOrbitalElements(T, q, e, omega, Omega, i) ==
    [perihelion_time |-> T, perihelion_distance |-> q, eccentricity |-> e,
     argument_of_perihelion |-> omega, longitude_ascending_node |-> Omega,
     inclination |-> i]

\* np.radians: whole degrees to milli-radians
Radians(deg) == (deg * PI) \div 180

\* KeplerianElements.from_degrees
from_degrees(a, e, i_deg, omega_deg, w_deg, M_deg, epoch) ==
    KeplerianElements(a, e, Radians(i_deg), Radians(omega_deg), Radians(w_deg), Radians(M_deg), epoch)

\* a = q / (1 - e) for e < 1 and a = q otherwise; the epoch is the
\* perihelion time and the mean anomaly there is 0
mpc_to_keplerian(mpc_elements) ==
    LET q == mpc_elements.perihelion_distance
        e == mpc_elements.eccentricity
        a == IF e < S THEN (q * S) \div (S - e) ELSE q
    IN  from_degrees(a, e, mpc_elements.inclination,
                     mpc_elements.longitude_ascending_node,
                     mpc_elements.argument_of_perihelion, 0,
                     mpc_elements.perihelion_time)

\* the records converted: q of 1P/Halley (0.586 AU), 1 AU and 2.5 AU, closed,
\* parabolic and hyperbolic
MPCRecords ==
    {MPCOrbitalElements(T, q, e, 112, 58, 162) :
         T \in {0, 60}, q \in {586, 1000, 2500}, e \in {0, 500, 967, 1000, 1200}}

\* a call of mpc_to_keplerian, and a read of the perihelion distance of the
\* elements it returns
PMpcToKeplerian(mpc_elements) ==
    /\ ret' = Ret("mpc_to_keplerian", Some(mpc_to_keplerian(mpc_elements)),
                  Ok(Some([perihelion_distance |->
                               perihelion_distance(mpc_to_keplerian(mpc_elements))])))
    /\ probe' = [solver_failed |-> FALSE, kepler |-> None,
                 record |-> mpc_elements]
    /\ UNCHANGED << prop, batchVars, ephVars, apiVars >>

\* ================================================== orbits and their period
\* the elements whose orbit is followed for one period (a = 2.5, e = 0.1 is
\* the orbit of test_orbital_period)
RoundTripElements ==
    {KeplerianElements(a, e, 0, 0, 0, M0, 0) :
         a \in {2500, 5204}, e \in {100, 500, 840}, M0 \in {0, 1000, 2000}}

\* propagator.propagate(elements.epoch) followed by
\* propagator.propagate(elements.epoch + elements.orbital_period)
PRoundTrip ==
    /\ prop # None
    /\ prop[1].kind = "twobody"
    /\ LET p == prop[1]
           el == p.elements
           back == el.epoch + orbital_period(el)
           first == TwoBodyPropagate(p, el.epoch)
           second == TwoBodyPropagate(p, back)
       IN  /\ ret' = Ret("round_trip", Some(el),
                         IF ~first.ok THEN first
                         ELSE IF ~second.ok THEN second
                         ELSE Ok(Some([at_epoch |-> first.val,
                                       after_period |-> second.val])))
           /\ probe' = [solver_failed |-> FALSE,
                        kepler |-> KeplerProbe(el, back),
                        at_epoch |-> KeplerProbe(el, el.epoch),
                        advance |-> MeanAnomalyAt(el, orbital_period(el), back)
                                        - el.mean_anomaly]
    /\ UNCHANGED << prop, batchVars, ephVars, apiVars >>

\* the elements whose two mean motions are compared (1 AU and 4 AU, where
\* a ** 1.5 is a whole number)
MeanMotionElements ==
    {KeplerianElements(a, e, 0, 0, 0, 0, 0) : a \in {1000, 4000}, e \in {100, 500}}

\* a call of keplerian_to_cartesian, with the two mean motions it computes
PKeplerianToCartesian(el, time) ==
    /\ ret' = Ret("keplerian_to_cartesian", Some(el),
                  IF keplerian_to_cartesian(el, time).ok
                  THEN Ok(Some(keplerian_to_cartesian(el, time).val))
                  ELSE keplerian_to_cartesian(el, time))
    /\ probe' = [solver_failed |-> FALSE, kepler |-> KeplerProbe(el, time),
                 time |-> time,
                 n_anomaly |-> MeanMotionOfPeriod(el),
                 n_velocity |-> MeanMotionOfMu(el)]
    /\ UNCHANGED << prop, batchVars, ephVars, apiVars >>

NextOrbit ==
    \/ \E el \in RoundTripElements : PNewTwoBody(el)
    \/ PRoundTrip
    \/ \E el \in MeanMotionElements, t \in Times : PKeplerianToCartesian(el, t)
    \/ \E rec \in MPCRecords : PMpcToKeplerian(rec)

SpecOrbit == InitProp /\ [][NextOrbit]_vars

\* ============================================================ cache keys
\* the designations and method strings keys are built for; calculate takes
\* any string for either
DesignationTexts == {"1P", "X", "X:0.0:60.0:3"}

KeyMethods == {"twobody", "nbody", "0.0:60.0:3:twobody"}

\* the arguments of an earlier call of _get_cache_key and the key it built
NoKey == [args |-> None, key |-> None]

\* a call of _get_cache_key
PGetCacheKey(designation, rng, method) ==
    /\ ret' = Ret("_get_cache_key", None,
                  Ok(Some(_get_cache_key(designation, rng.start, rng.end,
                                         rng.n, method))))
    /\ probe' = [solver_failed |-> FALSE, kepler |-> None,
                 args |-> << designation, rng.start, rng.end, rng.n, method >>,
                 earlier |-> IF ret.op = "_get_cache_key"
                             THEN [args |-> Some(probe.args), key |-> ret.val]
                             ELSE NoKey]
    /\ UNCHANGED << prop, batchVars, ephVars, apiVars >>

NextKey ==
    \E d \in DesignationTexts, rng \in BatchRanges, m \in KeyMethods :
        PGetCacheKey(d, rng, m)

SpecKey == InitProp /\ [][NextKey]_vars

\* ================================================= planet-position lookups
EvalTimes == {30, 60}

GetPlanetPositionSpice(planet_name, time) ==
    /\ ~run.active
    /\ LET got == get_planet_position_spice(spice_manager, kernels_on_disk,
                                            planet_name, time)
       IN  /\ spice_manager' = got.manager
           /\ printed' = got.lines
           /\ lookup' = [op |-> "get_planet_position_spice",
                         planet |-> planet_name, time |-> time,
                         raised |-> FALSE, val |-> got.val,
                         loaded |-> got.manager[1].kernels_loaded]
    /\ UNCHANGED << kernels_on_disk, run, propVars, batchVars, apiVars >>

GetPlanetPosition(planet_name, time, use_spice) ==
    /\ ~run.active
    /\ LET pos == get_planet_position(spice_manager, kernels_on_disk,
                                      planet_name, time, use_spice)
       IN  /\ spice_manager' = pos.manager
           /\ printed' = pos.lines
           /\ lookup' = [op |-> "get_planet_position", planet |-> planet_name,
                         time |-> time, use_spice |-> use_spice,
                         raised |-> ~pos.ok, val |-> pos.val,
                         source |-> pos.source, err |-> pos.err,
                         spice |-> pos.spice]
    /\ UNCHANGED << kernels_on_disk, run, propVars, batchVars, apiVars >>

LoadKernels ==
    /\ ~run.active
    /\ spice_manager # None
    /\ spice_manager' = load_kernels(spice_manager[1], kernels_on_disk).manager
    /\ printed' = load_kernels(spice_manager[1], kernels_on_disk).lines
    /\ UNCHANGED << kernels_on_disk, lookup, run, propVars, batchVars, apiVars >>

\* SPICEManager.unload_kernels
UnloadKernels ==
    /\ ~run.active
    /\ spice_manager # None
    /\ spice_manager[1].kernels_loaded
    /\ spice_manager' = Some([kernels_loaded |-> FALSE])
    /\ UNCHANGED << kernels_on_disk, printed, lookup, run, propVars, batchVars, apiVars >>

\* solve_ivp begins to integrate for the propagator
RunStart ==
    /\ ~run.active
    /\ prop # None /\ prop[1].kind = "nbody"
    /\ run' = [IdleRun EXCEPT !.active = TRUE, !.planets = prop[1].planets,
                              !.use_spice = prop[1].use_spice,
                              !.manager = spice_manager]
    /\ UNCHANGED << spice_manager, kernels_on_disk, printed, lookup, propVars,
                    batchVars, apiVars >>

\* one call of fun(t, y) = nbody_derivatives(t, y, self.planets, self.use_spice)
RunEval(t) ==
    /\ run.active
    /\ \A e \in run.evals : e.t # t
    /\ run' = nbody_derivatives(run, kernels_on_disk, t)
    /\ spice_manager' = nbody_derivatives(run, kernels_on_disk, t).manager
    /\ printed' = nbody_derivatives(run, kernels_on_disk, t).lines
    /\ UNCHANGED << kernels_on_disk, lookup, propVars, batchVars, apiVars >>

\* solve_ivp returns
RunEnd ==
    /\ run.active
    /\ run.evals # {}
    /\ run' = [run EXCEPT !.active = FALSE]
    /\ UNCHANGED << spice_manager, kernels_on_disk, printed, lookup, propVars,
                    batchVars, apiVars >>

NextEph ==
    \/ \E pl \in PlanetChoices, sp \in BOOLEAN :
          prop = None /\ PNewNBody(ElEllipse, pl, sp)
    \/ \E name \in PlanetNames, t \in EvalTimes : GetPlanetPositionSpice(Upper(name), t)
    \/ \E name \in PlanetNames, t \in EvalTimes, sp \in BOOLEAN :
          GetPlanetPosition(name, t, sp)
    \/ LoadKernels
    \/ UnloadKernels
    \/ RunStart
    \/ \E t \in EvalTimes : RunEval(t)
    \/ RunEnd

InitEph ==
    /\ cache_enabled = TRUE
    /\ InitBatch
    /\ InitPropVars
    /\ kernels_on_disk \in BOOLEAN
    /\ InitEphVars
    /\ InitApiVars

SpecEph == InitEph /\ [][NextEph]_vars

\* ========================================================= the batch endpoint
MaxPerRequest == 100

\* the Julian date of 2000-01-01 in the time unit of the model (days from it)
JD2000 == 0

DefaultDays == 365

\* the loaded catalog: a comet on a closed orbit, one without elements and
\* one on a hyperbolic orbit
CometH == Comet("C/1980 E1", Some(ElHyperbolic))

Catalog == << CometA, CometC, CometH >>

RequestDesignations == {"1P", "2P", "9P"}

BatchTrajectoryRequest(designations, start_date, end_date, days, num_points, method, parallel) ==
    [designations |-> designations, start_date |-> start_date,
     end_date |-> end_date, days |-> days, num_points |-> num_points,
     method |-> method, parallel |-> parallel]

\* the requests of the model: by days from the epoch, or by two dates
\* (a date is its number of days from 2000-01-01)
Requests ==
    {BatchTrajectoryRequest(ds, None, None, Some(60), 3, m, par) :
         ds \in ListsUpTo(RequestDesignations, MaxBatch) \ {<< >>},
         m \in Methods, par \in BOOLEAN}
    \cup
    {BatchTrajectoryRequest(ds, Some(40), Some(60), Some(DefaultDays), 2, m, par) :
         ds \in ListsUpTo(RequestDesignations, MaxBatch),
         m \in {"twobody"}, par \in BOOLEAN}

InCatalog(designation) ==
    \E i \in 1..Len(Catalog) : Catalog[i].designation = designation

\* the first catalog comet with the designation
FindComet(designation) ==
    Catalog[CHOOSE i \in 1..Len(Catalog) :
                /\ Catalog[i].designation = designation
                /\ \A j \in 1..(i - 1) : Catalog[j].designation # designation]

\* the loop over request.designations
RECURSIVE FindComets(_)
FindComets(designations) ==
    IF designations = << >> THEN [comets |-> << >>, not_found |-> << >>]
    ELSE LET before == FindComets(SubSeq(designations, 1, Len(designations) - 1))
             designation == designations[Len(designations)]
         IN  IF InCatalog(designation)
             THEN [before EXCEPT !.comets = Append(@, FindComet(designation))]
             ELSE [before EXCEPT !.not_found = Append(@, designation)]

AttributeErrorMsg == "'NoneType' object has no attribute 'epoch'"

DaysOf(request) ==
    IF request.days = None \/ request.days[1] = 0
    THEN DefaultDays ELSE request.days[1]

\* start_jd and end_jd
RequestRange(request, comets) ==
    IF request.start_date # None /\ request.end_date # None
    THEN Ok(<< JD2000 + request.start_date[1], JD2000 + request.end_date[1] >>)
    ELSE IF comets[1].elements = None THEN Raise(AttributeErrorMsg)
    ELSE Ok(<< comets[1].elements[1].epoch,
               comets[1].elements[1].epoch + DaysOf(request) >>)

HttpResponse(status, body) == [status |-> status, body |-> body]

Responded(request, not_found, status, body) ==
    [pc |-> "responded", request |-> Some(request), not_found |-> not_found,
     response |-> Some(HttpResponse(status, body))]

BatchBody(results, stats, not_found) ==
    [trajectories |-> SelectSeq(results, LAMBDA r : r.success),
     errors |-> SelectSeq(results, LAMBDA r : ~r.success),
     not_found |-> not_found,
     statistics |-> stats]

\* POST /api/trajectories/batch, up to the call of batch_calculator.calculate
PostBatch(request) ==
    /\ http.pc # "calculating"
    /\ UNCHANGED performance_metrics
    /\ ~Active(call[1])
    /\ LET found == FindComets(request.designations)
           range == RequestRange(request, found.comets)
       IN  IF Len(request.designations) > MaxPerRequest
           THEN /\ http' = Responded(request, << >>, 400, None)
                /\ UNCHANGED << batchVars, propVars, ephVars >>
           ELSE IF found.comets = << >>
           THEN /\ http' = Responded(request, found.not_found, 404, None)
                /\ UNCHANGED << batchVars, propVars, ephVars >>
           ELSE IF ~range.ok
           THEN /\ http' = Responded(request, found.not_found, 500, None)
                /\ UNCHANGED << batchVars, propVars, ephVars >>
           ELSE /\ http' = [pc |-> "calculating", request |-> Some(request),
                            not_found |-> found.not_found, response |-> None]
                /\ EnterCalculate(1, found.comets,
                                  TimeRange(range.val[1], range.val[2],
                                            request.num_points),
                                  request.method,
                                  [parallel |-> request.parallel,
                                   max_workers |-> None])

\* the rest of the handler, once calculate has returned or raised
RespondBatch ==
    /\ http.pc = "calculating"
    /\ UNCHANGED performance_metrics
    /\ call[1].pc \in {"returned", "raised"}
    /\ http' = IF call[1].pc = "raised"
               THEN Responded(http.request[1], http.not_found, 500, None)
               ELSE Responded(http.request[1], http.not_found, 200,
                              Some(BatchBody(call[1].out[1].results,
                                             call[1].out[1].statistics,
                                             http.not_found)))
    /\ UNCHANGED << batchVars, propVars, ephVars >>

NextApi ==
    \/ \E request \in Requests : PostBatch(request)
    \/ CheckCache(1)
    \/ Dispatch(1)
    \/ \E k \in 1..MaxBatch : UnitStart(1, k)
    \/ \E k \in 1..MaxBatch, dies \in BOOLEAN : UnitFinish(1, k, dies)
    \/ EndCollect(1)
    \/ UpdateCache(1)
    \/ Return(1)
    \/ RespondBatch

InitApi ==
    /\ cache_enabled = TRUE
    /\ InitBatch
    /\ InitPropVars
    /\ kernels_on_disk = TRUE
    /\ InitEphVars
    /\ InitApiVars

SpecApi == InitApi /\ [][NextApi]_vars

\* ============================================================ error metrics
MaxLogged == 12

\* the errors logged: << error_type, message >>
LoggedErrors ==
    {<< "CometNotFound", "Comet 9P not found" >>,
     << "TrajectoryCalculationError", "Error calculating trajectory for 1P" >>}

\* the log_error calls made so far, as their caller has noted them
CallsNoted == IF ret.op = "log_error" THEN ret.val[1] ELSE << >>

\* a call of log_error (details left out); the clock reads the number of
\* the call
LogError(error_type, message) ==
    /\ performance_metrics.errors.total < MaxLogged
    /\ performance_metrics' =
           log_error(performance_metrics, Len(CallsNoted) + 1, error_type,
                     message, NoDetails)
    /\ ret' = Ret("log_error", None,
                  Ok(Some(Append(CallsNoted,
                                 [type |-> error_type, message |-> message]))))
    /\ probe' = NoProbe
    /\ UNCHANGED << prop, batchVars, ephVars, http >>

NextErrors == \E err \in LoggedErrors : LogError(err[1], err[2])

SpecErrors == InitApi /\ [][NextErrors]_vars

\* ===================================================== trajectory endpoint
MaxRequests == 3

TrajectoryRequest(designation, days, points, method) ==
    [designation |-> designation, days |-> days, points |-> points,
     method |-> method]

\* points is at least 10 (Query(100, ge=10, le=1000))
TrajectoryRequests ==
    {TrajectoryRequest(d, 60, 10, m) :
         d \in RequestDesignations \cup {CometH.designation}, m \in Methods}

\* propagator.get_trajectory: the positions and times of propagate_range
get_trajectory(p, start_time, end_time, num_points) ==
    LET states == PropagateRange(p, start_time, end_time, num_points)
    IN  IF ~states.ok THEN Raise(states.err)
        ELSE Ok([positions |-> [k \in 1..Len(states.val) |-> states.val[k].position],
                 times |-> [k \in 1..Len(states.val) |-> states.val[k].time]])

ToDictMsg == "'StateVector' object has no attribute 'to_dict'"

\* final_state.to_dict(): StateVector defines no such method
to_dict(state) == Raise(ToDictMsg)

\* the propagator the endpoint builds
EndpointPropagator(el, method) ==
    IF method = "nbody" THEN NBodyPropagator(el, Some(DefaultPlanets), TRUE)
    ELSE Ok(TwoBodyPropagator(el))

\* propagator.propagate(end_time)
EndpointFinalState(p, end_time) ==
    IF p.kind = "nbody" THEN NBodyPropagate(p, end_time)
    ELSE TwoBodyPropagate(p, end_time)

\* the update of the trajectory_calculations counters
CountCalculation(m, method) ==
    [m EXCEPT !.trajectory_calculations.total = @ + 1,
              !.trajectory_calculations[method].count = @ + 1]

\* the response of a request that got as far as final_state.to_dict()
TryAnswer(comet, request, got, final_state, dict) ==
    [propagated |-> got.ok /\ final_state.ok,
     counted |-> got.ok,
     body |-> IF ~dict.ok THEN Raise(dict.err)
              ELSE Ok([designation |-> comet.designation,
                       method |-> request.method,
                       start_time |-> comet.elements[1].epoch,
                       end_time |-> comet.elements[1].epoch + request.days,
                       days |-> request.days,
                       points |-> Len(got.val.times),
                       trajectory |->
                           [k \in 1..Len(got.val.times) |->
                               [time |-> got.val.times[k],
                                days_from_epoch |->
                                    got.val.times[k] - comet.elements[1].epoch,
                                position |-> got.val.positions[k]]],
                       final_state |-> dict.val])]

\* final_state.to_dict()
TryFinal(comet, request, got, final_state) ==
    TryAnswer(comet, request, got, final_state,
              IF final_state.ok THEN to_dict(final_state.val)
              ELSE Raise(final_state.err))

\* final_state = propagator.propagate(end_time)
TryGot(comet, request, made, got) ==
    TryFinal(comet, request, got,
             IF got.ok
             THEN EndpointFinalState(made.val,
                                     comet.elements[1].epoch + request.days)
             ELSE Raise(got.err))

\* positions, times = propagator.get_trajectory(start_time, end_time, points)
TryMade(comet, request, made) ==
    TryGot(comet, request, made,
           IF made.ok
           THEN get_trajectory(made.val, comet.elements[1].epoch,
                               comet.elements[1].epoch + request.days,
                               request.points)
           ELSE Raise(made.err))

\* the try block of get_trajectory: how far it gets and what it returns
TryTrajectory(comet, request) ==
    TryMade(comet, request,
            EndpointPropagator(comet.elements[1], request.method))

\* log_error and raise HTTPException; the clock of log_error reads the
\* number of the error
Refuse(request, status, error_type, message, details) ==
    /\ performance_metrics' =
           log_error(performance_metrics, performance_metrics.errors.total + 1,
                     error_type, message, details)
    /\ http' = Responded(request, << >>, status, None)

\* the end of the try block, or its except branch
AnswerTrajectory(request, try) ==
    /\ performance_metrics' =
           IF try.body.ok
           THEN CountCalculation(performance_metrics, request.method)
           ELSE log_error(IF try.counted
                          THEN CountCalculation(performance_metrics, request.method)
                          ELSE performance_metrics,
                          performance_metrics.errors.total + 1,
                          "TrajectoryCalculationError",
                          "Error calculating trajectory for " \o request.designation,
                          [designation |-> request.designation,
                           method |-> request.method,
                           days |-> request.days,
                           points |-> request.points,
                           error |-> try.body.err])
    /\ http' = IF try.body.ok
               THEN Responded(request, << >>, 200, Some(try.body.val))
               ELSE Responded(request, << >>, 500, None)

\* GET /comets/{designation}/trajectory
GetTrajectory(request) ==
    /\ performance_metrics.errors.total < MaxRequests
    /\ performance_metrics.trajectory_calculations.total < MaxRequests
    /\ IF ~InCatalog(request.designation)
       THEN Refuse(request, 404, "CometNotFound",
                   "Comet " \o request.designation \o " not found",
                   [designation |-> request.designation])
       ELSE IF FindComet(request.designation).elements = None
       THEN Refuse(request, 400, "MissingOrbitalElements",
                   "Comet " \o request.designation \o " has no orbital elements",
                   [designation |-> request.designation])
       ELSE AnswerTrajectory(request,
                TryTrajectory(FindComet(request.designation), request))
    /\ UNCHANGED << batchVars, propVars, ephVars >>

NextTraj == \E request \in TrajectoryRequests : GetTrajectory(request)

SpecTraj == InitApi /\ [][NextTraj]_vars

\* ------------------------------------------------------------------ C1
\* the result the caller finds under a designation when calculate returns
Returned(c, designation) == DictGet(c.out[1].results, designation)

Designation(c, i) == c.comets[i].designation

\* C1: a failed unit of a batch (no elements, e >= 1, an exception in the
\* propagator or in the worker future) gives a failed TrajectoryResult with an
\* error text under its designation, calculate still returns, and every
\* other object of the batch has the result it gets when computed alone: the
\* outcome of its own unit of work if it was dispatched, the cached entry if
\* it was a cache hit.
\* calculate raises only for a worker count that no pool accepts.
C1_FailureIsolated ==
    LET c == call[1]
    IN  /\ c.pc = "raised" =>
               /\ c.parallel
               /\ ResolveWorkers(c.max_workers, c.method,
                                 Len(c.comets_to_calculate)) <= 0
        /\ c.pc = "returned" =>
               \A k \in 1..Len(c.units) :
                   ~c.units[k].outcome[1].success =>
                       /\ ~Returned(c, c.units[k].comet.designation).success
                       /\ Returned(c, c.units[k].comet.designation).error # None
                       /\ \A m \in (1..Len(c.units)) \ {k} :
                              Returned(c, c.units[m].comet.designation)
                                  = Single[c.units[m].comet, CallRange(c),
                                           c.method]
                       /\ \A i \in 1..Len(c.comets) :
                              c.hit[i] =>
                                  Returned(c, Designation(c, i))
                                      = c.cache_at_call[CallKey(c, Designation(c, i))]

\* ------------------------------------------------------------------ C2
Known(c, i) == {pair \in c.known : pair[1] = FiveTuple(c, Designation(c, i))}

Hits(c) == {i \in 1..Len(c.comets) : c.hit[i]}

\* C2: with the cache enabled, a call made after calculate has returned a
\* successful result for the same five values (and no clear_cache since)
\* returns that stored result for the object, counts it as a cache hit and
\* dispatches no unit for it; the units of a call number its cache_misses.
C2_StoredResultReturned ==
    LET c == call[1]
    IN  (c.pc = "returned" /\ cache_enabled) =>
            /\ \A i \in 1..Len(c.comets) :
                   \A pair \in Known(c, i) :
                       /\ c.hit[i]
                       /\ Returned(c, Designation(c, i)) = pair[2]
            /\ c.out[1].statistics.cache_hits = Cardinality(Hits(c))
            /\ c.out[1].statistics.cache_misses = Len(c.units)
            /\ Len(c.units) = Len(c.comets) - Cardinality(Hits(c))

\* a call that returned one object from the cache and computed another
C2_HitAndMiss ==
    LET c == call[1]
    IN  /\ c.pc = "returned" /\ cache_enabled
        /\ \E i \in 1..Len(c.comets) : Known(c, i) # {} /\ c.hit[i]
        /\ c.out[1].statistics.cache_hits = 1
        /\ c.out[1].statistics.cache_misses = 1

\* ------------------------------------------------------------------ C3
\* C3: the points returned from a cache hit are those a fresh propagation of
\* the comet supplied in that call produces (so a calculator with the cache
\* enabled and one with the cache disabled return the same points).
C3_HitEqualsFresh ==
    LET c == call[1]
    IN  c.pc = "returned" =>
            \A i \in Hits(c) :
                Returned(c, Designation(c, i)).trajectory
                    = Single[c.comets[i], CallRange(c), c.method].trajectory

\* ------------------------------------------------------------------ C4
MissedKeys(c) ==
    {CallKey(c, c.comets_to_calculate[k].designation) :
         k \in 1..Len(c.comets_to_calculate)}

KeyDesignations(c, key) ==
    {c.comets_to_calculate[k].designation :
         k \in {m \in 1..Len(c.comets_to_calculate) :
                    CallKey(c, c.comets_to_calculate[m].designation) = key}}

\* C4: when two overlapping calculate calls on one calculator have both
\* missed on a cache key, then once both have returned the cache holds an
\* entry for the key, both calls have returned a successful result with the
\* trajectory points of that entry, and every entry that was stored under
\* another key when a call began is still there unchanged.
C4_ConcurrentMissesAgree ==
    (/\ call[1].pc = "returned" /\ call[2].pc = "returned"
     /\ call[1].overlapped /\ call[2].overlapped) =>
        \A key \in MissedKeys(call[1]) \cap MissedKeys(call[2]) :
            /\ key \in DOMAIN cache
            /\ \A t \in Callers :
                   /\ \A d \in KeyDesignations(call[t], key) :
                          /\ Returned(call[t], d).success
                          /\ Returned(call[t], d).trajectory = cache[key].trajectory
                   /\ \A other \in DOMAIN call[t].cache_at_call \ {key} :
                          /\ other \in DOMAIN cache
                          /\ cache[other] = call[t].cache_at_call[other]

\* ------------------------------------------------------------------ C5
LastUnitOf(c, designation) ==
    CHOOSE k \in 1..Len(c.units) :
        /\ c.units[k].comet.designation = designation
        /\ \A m \in (k + 1)..Len(c.units) :
               c.units[m].comet.designation # designation

\* C5: the map calculate_trajectories_parallel returns does not depend on
\* the order in which the futures complete.  Completion in submission order
\* is one of the orders, and it leaves under each designation the result of
\* the last unit submitted for it; so in every run the map holds that result.
C5_OrderIndependent ==
    LET c == call[1]
    IN  (c.parallel /\ c.pc \in {"update", "stats", "returned"}) =>
            \A k \in 1..Len(c.units) :
                DictGet(c.new_results, c.units[k].comet.designation)
                    = c.units[LastUnitOf(c, c.units[k].comet.designation)].outcome[1]

\* ------------------------------------------------------------------ C6
\* C6: when calculate returns, every dispatched unit has finished (none is
\* pending or running) and the results map has an entry for the designation
\* of every comet passed in.
C6_NoPartialReturn ==
    LET c == call[1]
    IN  c.pc = "returned" =>
            /\ \A k \in 1..Len(c.units) :
                   c.units[k].state = "done" /\ c.units[k].outcome # None
            /\ \A i \in 1..Len(c.comets) :
                   DictHas(c.out[1].results, Designation(c, i))

\* a parallel call that returned after two units for different designations
C6_TwoUnitsCollected ==
    LET c == call[1]
    IN  /\ c.pc = "returned" /\ c.parallel
        /\ Len(c.units) = 2
        /\ c.units[1].comet.designation # c.units[2].comet.designation
        /\ Len(c.out[1].results) = 2

\* ------------------------------------------------------------------ C7
\* C7: every unit with method "nbody" that calculate runs is executed in a
\* worker process, whatever the parallel flag and max_workers are.
C7_NBodyInWorkerProcess ==
    LET c == call[1]
    IN  c.method = "nbody" =>
            \A k \in 1..Len(c.units) :
                c.units[k].state \in {"running", "done"} =>
                    c.units[k].where = "process"

\* ------------------------------------------------------------------ C8
\* C8: when the integrator stops short of the requested span (solver
\* status "failed"), NBodyPropagator.propagate and propagate_range report the
\* failure to the caller instead of returning a state or a list of states.
C8_IntegrationFailureReported ==
    (ret.op \in {"propagate", "propagate_range"} /\ probe.solver_failed)
        => ~ret.ok

\* propagate_range came back normally with fewer states than were requested
C8_ShortListReturned ==
    /\ ret.op = "propagate_range"
    /\ probe.solver_failed
    /\ ret.ok
    /\ Len(ret.val) < probe.requested

\* ------------------------------------------------------------------ C9
\* C9: when the Kepler solver spends its whole iteration budget without the
\* step falling below the tolerance, the caller gets a failure, not a number
\* that looks like a converged eccentric anomaly.
C9_NonConvergenceSurfaced ==
    (/\ ret.op \in {"solve_kepler_equation", "propagate"}
     /\ probe.kepler # None
     /\ ~probe.kepler[1].converged
     /\ probe.kepler[1].iterations = KeplerMaxIter)
        => ~ret.ok

\* the solver returned its last iterate after a full, unconverged budget
C9_UnconvergedReturned ==
    /\ ret.op = "solve_kepler_equation"
    /\ ret.ok
    /\ probe.kepler # None
    /\ ~probe.kepler[1].converged
    /\ probe.kepler[1].iterations = KeplerMaxIter
    /\ ret.val = Some(probe.kepler[1].E)

\* ------------------------------------------------------------------ C10
Unsupported(elOpt) == elOpt # None /\ elOpt[1].eccentricity >= S

\* C10: no propagator yields a StateVector for elements with e >= 1:
\* TwoBodyPropagator.propagate and propagate_range raise the unsupported-orbit
\* error, the NBodyPropagator constructor raises it too (so no N-body
\* propagator exists on such elements), and the batch unit of work turns it
\* into a failed TrajectoryResult carrying that error.
C10_NoStateForUnboundOrbit ==
    /\ (prop # None /\ prop[1].kind = "nbody")
           => prop[1].elements.eccentricity < S
    /\ Unsupported(ret.el) =>
        /\ ret.op \in {"propagate", "propagate_range", "NBodyPropagator"}
               => (~ret.ok /\ ret.err = HyperbolicMsg /\ ret.val = << >>)
        /\ ret.op = "calculate_single_trajectory"
               => /\ ~ret.val[1].success
                  /\ ret.val[1].trajectory = None
                  /\ ret.val[1].error = Some(HyperbolicMsg)

C10_TwoBodyRaised ==
    /\ ret.op = "propagate"
    /\ Unsupported(ret.el)
    /\ prop # None /\ prop[1].kind = "twobody"
    /\ ~ret.ok /\ ret.err = HyperbolicMsg

\* ------------------------------------------------------------------ C11
\* the propagator the same constructor call makes for planets=['jupiter','saturn']
WithJupiterSaturn ==
    NBodyPropagator(ret.el[1], Some(DefaultPlanets), probe.use_spice_arg).val

\* C11: an NBodyPropagator constructed with planets=[] has an empty set of
\* perturbing bodies (no planetary term enters the acceleration), and its
\* propagation differs from that of a propagator constructed on the same
\* elements with planets=['jupiter','saturn'].
C11_EmptyPlanetListUnperturbed ==
    (/\ ret.op = "NBodyPropagator" /\ ret.ok
     /\ probe.planets_arg = Some(<< >>)) =>
        /\ prop[1].planets = << >>
        /\ NBodyPropagate(prop[1], 60) # NBodyPropagate(WithJupiterSaturn, 60)

\* a constructor call with planets=[] whose propagator perturbs with the default pair
C11_EmptyListGotDefaults ==
    /\ ret.op = "NBodyPropagator" /\ ret.ok
    /\ probe.planets_arg = Some(<< >>)
    /\ prop[1].planets = DefaultPlanets

\* ------------------------------------------------------------------ C12
Sources(r) == {e.source : e \in r.evals}

\* a printed line that tells of the lookup behind an evaluation
Recorded(r, e) ==
    \E line \in r.lines : line.planet = Upper(e.planet) /\ line.time = Some(e.t)

PreciseAvailable(r, e) ==
    /\ r.use_spice
    /\ r.manager # None /\ r.manager[1].kernels_loaded
    /\ e.t \in Coverage

\* C12: in a finished propagation every planet position came from the
\* precise ephemeris when it was requested and available and from the
\* analytic elements otherwise, and when the evaluations of the propagation
\* used both sources there is a record of the source of each evaluation.
C12_OneRecordedSource ==
    (~run.active /\ run.evals # {}) =>
        /\ \A e \in run.evals :
               e.source = IF PreciseAvailable(run, e) THEN "spice" ELSE "analytic"
        /\ Cardinality(Sources(run)) > 1 => \A e \in run.evals : Recorded(run, e)

\* a finished propagation whose evaluations used both sources
C12_MixedRun ==
    /\ ~run.active
    /\ Sources(run) = {"spice", "analytic"}

\* ------------------------------------------------------------------ C13
\* C13: get_planet_position_spice raises nothing and returns None when the
\* kernels are not loaded, when the body is unknown and when the time is
\* outside the coverage; get_planet_position, asked for the precise source
\* and not getting it, returns the analytic position of that planet and time.
C13_PreciseLookupNeverFatal ==
    /\ lookup.op = "get_planet_position_spice" =>
           /\ ~lookup.raised
           /\ (\/ ~lookup.loaded
               \/ ~_get_naif_id(lookup.planet).ok
               \/ lookup.time \notin Coverage) => lookup.val = None
    /\ (lookup.op = "get_planet_position" /\ lookup.use_spice
            /\ lookup.spice = None) =>
           /\ ~lookup.raised
           /\ lookup.val = Some(<< "analytic", lookup.planet, lookup.time >>)

\* a lookup of a known body, in another letter case, that ends in KeyError
C13_KnownBodyKeyError ==
    /\ lookup.op = "get_planet_position" /\ lookup.use_spice
    /\ _get_naif_id(lookup.planet).ok
    /\ lookup.spice = None
    /\ lookup.raised

\* ------------------------------------------------------------------ C14
\* the sample times start + i * (end - start) / (n - 1), i = 0 .. n - 1
SampleTimes(rng) == Linspace(rng.start, rng.end, rng.n)

\* C14: propagate_range(start, end, n), on either propagator, returns exactly
\* n StateVectors in sample order, the i-th at the i-th of the n evenly spaced
\* times from start to end, also when start is earlier than the element epoch.
C14_EvenlySpacedSamples ==
    (ret.op = "propagate_range" /\ ret.ok) =>
        /\ Len(ret.val) = probe.rng.n
        /\ \A i \in 1..Len(ret.val) :
               ret.val[i].time = SampleTimes(probe.rng)[i]

\* an N-body range that starts before the epoch: n states come back, with no
\* integration failure, and the first is not at the requested start
C14_StartMovedToEpoch ==
    /\ ret.op = "propagate_range" /\ ret.ok
    /\ prop[1].kind = "nbody"
    /\ ~probe.solver_failed
    /\ probe.rng.start < prop[1].initial_time
    /\ Len(ret.val) = probe.rng.n
    /\ ret.val[1].time # probe.rng.start

\* ------------------------------------------------------------------ C15
\* the integrations behind a state term, in order: each one is
\* << t_from, t_reached, t_sampled, planets, spice >>
Integrations(y) ==
    [k \in 1..((Len(y) - 6) \div 5) |-> SubSeq(y, 6 + 5 * (k - 1) + 1, 6 + 5 * k)]

StateTerm(sv) == Tail(sv.position)

OffEpochRange ==
    /\ ret.op = "propagate_range" /\ ret.ok
    /\ prop[1].kind = "nbody"
    /\ ClampStart(prop[1], probe.rng.start) # prop[1].initial_time

Fresh(p) ==
    IF p.kind = "nbody"
    THEN NBodyPropagator(p.elements, Some(p.planets), p.use_spice).val
    ELSE TwoBodyPropagator(p.elements)

IsQuery(r) == r.op \in {"propagate", "propagate_range"}

\* the answer of a propagator to the query recorded in a probe
Answered(p, r, pr) ==
    IF r.op = "propagate_range"
    THEN PropagateRange(p, pr.rng.start, pr.rng.end, pr.rng.n)
    ELSE IF p.kind = "nbody" THEN Ok(Some(NBodyPropagate(p, pr.time).val))
    ELSE LET a == TwoBodyPropagate(p, pr.time)
         IN  IF a.ok THEN Ok(Some(a.val)) ELSE a

QueryUnchanged(now, after, r) == IsQuery(r) => after = now

\* C16: the N-body initial state is the two-body state at the element epoch
\* and initial_time is the epoch; no propagate or propagate_range call changes
\* the propagator; and the answer of a query is the answer a newly built
\* propagator gives to it, whatever was asked before.
C16_QueriesLeavePropagator ==
    /\ [](prop # None =>
            /\ prop[1] = Fresh(prop[1])
            /\ IsQuery(ret) =>
                   /\ ret.ok = Answered(Fresh(prop[1]), ret, probe).ok
                   /\ ret.ok => ret.val = Answered(Fresh(prop[1]), ret, probe).val)
    /\ [][prop # None => QueryUnchanged(prop, prop', ret')]_vars

\* an N-body range query answered right after a single-time query on the same
\* propagator
C16_RangeAfterOtherQuery ==
    /\ prop # None /\ prop[1].kind = "nbody"
    /\ ret.op = "propagate_range" /\ ret.ok
    /\ probe.previous = "propagate"
    /\ probe.rng.start = 20

\* ------------------------------------------------------------------ C17
\* every entry of the cache is still there, unchanged
Kept(before, after) ==
    \A k \in DOMAIN before : k \in DOMAIN after /\ after[k] = before[k]

\* a step of calculate (clear_cache is the only step that leaves call alone)
CalculateStep(before, after) == after # before

\* C17: a step of a calculate call keeps every cache entry with its value, so
\* get_cache_size does not decrease; the only other change of the cache is
\* clear_cache, which leaves size 0; and a call that starts on an empty cache
\* has no hit.
C17_EntriesStayUntilCleared ==
    /\ [][CalculateStep(call, call') =>
              /\ Kept(cache, cache')
              /\ get_cache_size(cache') >= get_cache_size(cache)]_vars
    /\ [][(~CalculateStep(call, call') /\ cache' # cache) =>
              get_cache_size(cache') = 0]_vars
    /\ [](\A t \in Callers :
              call[t].cache_at_call = EmptyCache => call[t].cache_hits = 0)

\* a call returns with a hit on an entry stored by an earlier call while the
\* cache holds a second entry
C17_HitBesideSecondEntry ==
    /\ call[1].pc = "returned"
    /\ call[1].cache_hits >= 1
    /\ get_cache_size(cache) >= 2

\* ------------------------------------------------------------------ C18
Requested(h) ==
    {h.request[1].designations[i] : i \in 1..Len(h.request[1].designations)}

\* the number of the three parts of a response body a designation appears in
Appearances(body, designation) ==
    Cardinality({part \in {"trajectories", "errors", "not_found"} :
        \/ part = "trajectories" /\ DictHas(body.trajectories, designation)
        \/ part = "errors" /\ DictHas(body.errors, designation)
        \/ /\ part = "not_found"
           /\ \E i \in 1..Len(body.not_found) : body.not_found[i] = designation})

WithoutElements(designation) ==
    InCatalog(designation) /\ FindComet(designation).elements = None

Answerable(h) ==
    /\ h.pc = "responded"
    /\ Len(h.request[1].designations) <= MaxPerRequest
    /\ \E d \in Requested(h) : InCatalog(d)

\* C18: a request of at most 100 designations of which one is in the catalog
\* gets a batch result (status 200) in which each requested designation is in
\* exactly one of trajectories, errors and not_found, and a catalog object
\* without elements is in errors, wherever it stands in the request.
C18_EveryDesignationAnswered ==
    Answerable(http) =>
        /\ http.response[1].status = 200
        /\ \A d \in Requested(http) :
               /\ Appearances(http.response[1].body[1], d) = 1
               /\ WithoutElements(d) =>
                      DictHas(http.response[1].body[1].errors, d)

\* the object without elements stands first in a request by days, the request
\* also names a comet that has elements, and the answer is a server error
C18_ElementlessFirstFails ==
    /\ http.pc = "responded"
    /\ http.request[1].designations = << "2P", "1P" >>
    /\ http.request[1].start_date = None
    /\ http.response[1].status = 500

\* the same statement for the requests whose time range the handler can
\* determine: two dates given, or an object with elements first
C18_AnsweredWhenRangeKnown ==
    (/\ Answerable(http)
     /\ RequestRange(http.request[1],
                     FindComets(http.request[1].designations).comets).ok) =>
        /\ http.response[1].status = 200
        /\ \A d \in Requested(http) :
               /\ Appearances(http.response[1].body[1], d) = 1
               /\ WithoutElements(d) =>
                      DictHas(http.response[1].body[1].errors, d)

\* ------------------------------------------------------------------ C19
StatsOf(c) == c.out[1].statistics

DistinctDesignations(comets) ==
    \A i, j \in 1..Len(comets) :
        comets[i].designation = comets[j].designation => i = j

\* C19: the statistics calculate returns satisfy
\* successful + failed = cache_hits + cache_misses = total_objects = the
\* length of the comets list, for every batch (a designation may occur more
\* than once) and with the cache enabled or disabled.
C19_StatisticsAccountForAll ==
    \A t \in Callers :
        call[t].pc = "returned" =>
            /\ StatsOf(call[t]).total_objects = Len(call[t].comets)
            /\ StatsOf(call[t]).cache_hits + StatsOf(call[t]).cache_misses
                   = StatsOf(call[t]).total_objects
            /\ StatsOf(call[t]).successful + StatsOf(call[t]).failed
                   = StatsOf(call[t]).total_objects

\* a batch of two objects with one designation returns statistics that count
\* one result
C19_RepeatedDesignationCountedOnce ==
    /\ call[1].pc = "returned"
    /\ Len(call[1].comets) = 2
    /\ ~DistinctDesignations(call[1].comets)
    /\ StatsOf(call[1]).total_objects = 2
    /\ StatsOf(call[1]).successful + StatsOf(call[1]).failed = 1

\* the parts of the statement that hold: hits and misses always add up to the
\* length of the list, and so do successes and failures when the designations
\* of the batch are distinct
C19_AccountedWhenDistinct ==
    \A t \in Callers :
        call[t].pc = "returned" =>
            /\ StatsOf(call[t]).total_objects = Len(call[t].comets)
            /\ StatsOf(call[t]).cache_hits + StatsOf(call[t]).cache_misses
                   = StatsOf(call[t]).total_objects
            /\ DistinctDesignations(call[t].comets) =>
                   StatsOf(call[t]).successful + StatsOf(call[t]).failed
                       = StatsOf(call[t]).total_objects

\* ------------------------------------------------------------------ C20
\* E0 and the first n Newton iterates from it (computed in halves to keep
\* the evaluation shallow)
RECURSIVE NewtonIterates(_, _, _, _)
NewtonIterates(M, e, E0, n) ==
    IF n = 0 THEN << E0 >>
    ELSE IF n = 1 THEN << E0, KeplerStep(M, e, E0) >>
    ELSE LET first == NewtonIterates(M, e, E0, n \div 2)
         IN  first \o Tail(NewtonIterates(M, e, first[Len(first)], n - n \div 2))

\* a run of n steps along the iterates Es that returned val: at most max_iter
\* steps, every divisor positive, no earlier step within the tolerance, the
\* last step within it unless the run used all its steps, and the last
\* iterate returned
RunAsStated(e, n, Es, val) ==
    /\ n \in 1..KeplerMaxIter
    /\ \A k \in 1..n : f_prime(e, Es[k]) > 0
    /\ \A k \in 1..(n - 1) : ~KeplerConverged(Es[k + 1], Es[k])
    /\ n < KeplerMaxIter => KeplerConverged(Es[n + 1], Es[n])
    /\ val = Some(Es[n + 1])

\* C20: for every mean anomaly M and every e in [0,1) solve_kepler_equation
\* returns a value: it starts from E0 = M when e < 0.8 and from E0 = pi
\* otherwise, takes at most 100 Newton steps, returns at the first step whose
\* change is below the tolerance, and 1 - e*cos(E) is positive at every step.
C20_KeplerTerminates ==
    ret.op = "solve_kepler_equation" =>
        /\ ret.ok
        /\ RunAsStated(probe.args[2], probe.kepler[1].iterations,
                       NewtonIterates(probe.args[1], probe.args[2],
                                      IF probe.args[2] < E0Threshold
                                      THEN probe.args[1] ELSE PI,
                                      probe.kepler[1].iterations),
                       ret.val)

\* a run at e >= 0.8 that starts from pi and returns from inside the loop
\* after more than one step
C20_HighEccentricityConverges ==
    /\ ret.op = "solve_kepler_equation"
    /\ probe.args[2] >= E0Threshold
    /\ probe.kepler[1].converged
    /\ probe.kepler[1].iterations > 1
    /\ probe.kepler[1].iterations < KeplerMaxIter

\* ------------------------------------------------------------------ C21
OnSolverPath(r) == r.op \in {"propagate", "propagate_range", "NBodyPropagator"}

\* C21: every call of the Kepler solver made by a two-body propagation or by
\* the construction of an N-body initial state has e < 1, elements with
\* e >= 1 are rejected with no solver call, and every planet table the
\* analytic positions use has e < 1.
C21_SolverOnlyBelowOne ==
    /\ OnSolverPath(ret) =>
           /\ \A c \in probe.solver_args : c[2] < S
           /\ ret.el[1].eccentricity >= S =>
                  /\ probe.solver_args = {}
                  /\ ~ret.ok /\ ret.err = HyperbolicMsg
    /\ \A planet \in DOMAIN PlanetEccentricity : PlanetEccentricity[planet] < S

\* a two-body propagation of parabolic elements is refused before the solver
C21_ParabolicRejectedUnsolved ==
    /\ ret.op = "propagate"
    /\ ret.el[1].eccentricity = S
    /\ ~ret.ok
    /\ probe.solver_args = {}

\* ------------------------------------------------------------------ C22
IsInverse(r) == r.op \in {"cartesian_to_keplerian", "from_state_vector"}

IsFinite(x) == x # Infinity

\* equal up to the last digit kept (both sides carry one more factor S)
WithinUnit(x, y) == Abs(x - y) < S

\* C23: for e >= 1 orbital_period and aphelion_distance are the unbounded
\* value; for e < 1 and a > 0 both are finite, aphelion_distance is a(1+e)
\* and perihelion_distance is a(1-e).
C23_UnboundedForOpenOrbits ==
    ret.op = "properties" =>
        /\ ret.el[1].eccentricity >= S =>
               /\ ~IsFinite(ret.val[1].orbital_period)
               /\ ~IsFinite(ret.val[1].aphelion_distance)
        /\ (ret.el[1].eccentricity < S /\ ret.el[1].semi_major_axis > 0) =>
               /\ IsFinite(ret.val[1].orbital_period)
               /\ IsFinite(ret.val[1].aphelion_distance)
               /\ WithinUnit(ret.val[1].aphelion_distance * S,
                      ret.el[1].semi_major_axis * (S + ret.el[1].eccentricity))
               /\ WithinUnit(ret.val[1].perihelion_distance * S,
                      ret.el[1].semi_major_axis * (S - ret.el[1].eccentricity))

\* the properties of a hyperbolic orbit (e = 1.2) were read
C23_HyperbolicRead ==
    /\ ret.op = "properties"
    /\ ret.el[1].eccentricity = 1200
    /\ ret.val[1].orbital_period = Infinity

\* ------------------------------------------------------------------ C24
\* the larger of the coordinate differences of two positions
Separation(u, v) ==
    LET dx == Abs(u[1] - v[1])
        dy == Abs(u[2] - v[2])
        dz == Abs(u[3] - v[3])
    IN  IF dx >= dy /\ dx >= dz THEN dx ELSE IF dy >= dz THEN dy ELSE dz

\* the distance the arithmetic of the model cannot tell from zero on an
\* orbit of semi-major axis a (a tenth of a)
RoundTripTol(el) == el.semi_major_axis \div 10

\* C24: for elements with e < 1 the position at epoch + orbital_period is
\* the position at epoch.
C24_PeriodReturnsToStart ==
    (ret.op = "round_trip" /\ ret.el[1].eccentricity < S) =>
        /\ ret.ok
        /\ Separation(ret.val[1].at_epoch.position,
                      ret.val[1].after_period.position) <= RoundTripTol(ret.el[1])

\* the same for the orbits whose solver run starts from M (e < 0.8)
C24_ReturnsBelowThreshold ==
    (ret.op = "round_trip" /\ ret.el[1].eccentricity < E0Threshold) =>
        /\ ret.ok
        /\ probe.kepler[1].converged
        /\ Separation(ret.val[1].at_epoch.position,
                      ret.val[1].after_period.position) <= RoundTripTol(ret.el[1])

\* a round trip at e = 0.84 whose second solver run used every iteration
\* without converging and that ended away from where it started
C24_HighEccentricityMisses ==
    /\ ret.op = "round_trip"
    /\ ret.ok
    /\ ret.el[1].eccentricity = 840
    /\ probe.at_epoch[1].converged
    /\ ~probe.kepler[1].converged
    /\ Separation(ret.val[1].at_epoch.position,
                  ret.val[1].after_period.position) > RoundTripTol(ret.el[1])

\* ------------------------------------------------------------------ C25
\* C25: within one keplerian_to_cartesian call the mean motion 2*pi/period
\* that advances the mean anomaly equals the mean motion sqrt(mu/a^3) that
\* scales the velocity (to the last digit kept).
C25_OneMeanMotion ==
    ret.op = "keplerian_to_cartesian" =>
        Abs(probe.n_anomaly - probe.n_velocity) <= 1

\* a call at 1 AU whose mean motions are 2*pi/365.25 = 0.01720242 and
\* sqrt(mu) = 0.01720209 rad/day
C25_JulianAgainstGaussian ==
    /\ ret.op = "keplerian_to_cartesian"
    /\ ret.ok
    /\ ret.el[1].semi_major_axis = S
    /\ probe.n_anomaly = 1720242
    /\ probe.n_velocity = 1720209

\* ------------------------------------------------------------------ C26
\* the objects of a returned call whose result is a failure
FailedObjects(c) ==
    {i \in 1..Len(c.comets) : ~Returned(c, Designation(c, i)).success}

\* the pass of the update loop that is about to run handles a failed result
FailedPass(c) == c.pc = "update" /\ ~c.new_results[c.j].success

\* C26: every cache entry is a successful result with a trajectory; the pass
\* of the update loop over a failed result leaves the cache as it is; and
\* when a call with the cache enabled has returned a failure for an object,
\* the object was not a hit, a unit of work was run for it, and the cache has
\* no entry under its key, so that the next call with the key misses again.
C26_OnlySuccessesCached ==
    /\ [](\A k \in DOMAIN cache :
              cache[k].success /\ cache[k].trajectory # None)
    /\ [][FailedPass(call[1]) => cache' = cache]_vars
    /\ []((call[1].pc = "returned" /\ cache_enabled) =>
              \A i \in FailedObjects(call[1]) :
                  /\ ~call[1].hit[i]
                  /\ \E k \in 1..Len(call[1].units) :
                         call[1].units[k].comet = call[1].comets[i]
                  /\ CallKey(call[1], Designation(call[1], i)) \notin DOMAIN cache)

\* a call that began on a cache filled by an earlier call returns one object
\* from the cache and a failure for another, which it computed and did not
\* store
C26_FailureBesideHit ==
    /\ call[1].pc = "returned" /\ cache_enabled
    /\ call[1].cache_at_call # EmptyCache
    /\ call[1].cache_hits = 1
    /\ FailedObjects(call[1]) # {}
    /\ cache = call[1].cache_at_call

\* ------------------------------------------------------------------ C27
\* C27: the keys built for two five-tuples that differ in designation,
\* start, end, n_points or method are different.
C27_KeyInjective ==
    (ret.op = "_get_cache_key" /\ probe.earlier.args # None) =>
        (probe.earlier.args[1] # probe.args => probe.earlier.key # ret.val)

\* the same when neither the designation nor the method holds a colon
C27_InjectiveWithoutColon ==
    (/\ ret.op = "_get_cache_key" /\ probe.earlier.args # None
     /\ {probe.args[1], probe.earlier.args[1][1]} \subseteq {"1P", "X"}
     /\ {probe.args[5], probe.earlier.args[1][5]} \subseteq {"twobody", "nbody"}) =>
        (probe.earlier.args[1] # probe.args => probe.earlier.key # ret.val)

\* the key of ("X:0.0:60.0:3", 0.0, 60.0, 3, "twobody") built after the key
\* of ("X", 0.0, 60.0, 3, "0.0:60.0:3:twobody"): one text for both
C27_ColonShiftsFields ==
    /\ ret.op = "_get_cache_key"
    /\ probe.args = << "X:0.0:60.0:3", 0, 60, 3, "twobody" >>
    /\ probe.earlier.args = Some(<< "X", 0, 60, 3, "0.0:60.0:3:twobody" >>)
    /\ probe.earlier.key = ret.val
    /\ ret.val = Some("X:0.0:60.0:3:0.0:60.0:3:twobody")

\* ------------------------------------------------------------------ C28
\* the elements are the record's orbit at perihelion (q to the last digit)
AtPerihelion(r, record) ==
    /\ Abs(r.val[1].perihelion_distance - record.perihelion_distance) <= 1
    /\ r.el[1].epoch = record.perihelion_time
    /\ r.el[1].mean_anomaly = 0

\* C28: for every MPC record, closed or open, the elements mpc_to_keplerian
\* returns have the record's q as perihelion_distance, the perihelion time
\* as epoch and mean anomaly 0.
C28_ElementsAtPerihelion ==
    ret.op = "mpc_to_keplerian" => AtPerihelion(ret, probe.record)

\* the same for the records with e < 1
C28_ClosedAtPerihelion ==
    (ret.op = "mpc_to_keplerian" /\ probe.record.eccentricity < S) =>
        AtPerihelion(ret, probe.record)

\* a hyperbolic record with q = 1 AU and e = 1.2 whose elements have the
\* perihelion distance -0.2 AU
C28_HyperbolicPerihelionNegative ==
    /\ ret.op = "mpc_to_keplerian"
    /\ probe.record.eccentricity = 1200
    /\ probe.record.perihelion_distance = S
    /\ ret.el[1].semi_major_axis = S
    /\ ret.val[1].perihelion_distance = -200

\* ------------------------------------------------------------------ C29
\* the last n of a sequence
LastOf(seq, n) ==
    IF Len(seq) <= n THEN seq ELSE SubSeq(seq, Len(seq) - n + 1, Len(seq))

\* what was passed to log_error for an entry
PassedFor(entry) == [type |-> entry.type, message |-> entry.message]

RECURSIVE SumCounts(_)
SumCounts(by_type) ==
    IF DOMAIN by_type = {} THEN 0
    ELSE LET t == CHOOSE x \in DOMAIN by_type : TRUE
         IN  by_type[t] + SumCounts([x \in DOMAIN by_type \ {t} |-> by_type[x]])

\* C29: after any sequence of log_error calls errors.recent holds at most 10
\* entries, they are the last calls in the order of their arrival,
\* errors.total is the number of calls and the sum of the by_type counts, and
\* each by_type count is the number of calls with the type.
C29_RecentErrorsKept ==
    LET errors == performance_metrics.errors
    IN  ret.op = "log_error" =>
            /\ Len(errors.recent) <= RecentLimit
            /\ [k \in 1..Len(errors.recent) |-> PassedFor(errors.recent[k])]
                   = LastOf(CallsNoted, RecentLimit)
            /\ \A k \in 1..Len(errors.recent) :
                   errors.recent[k].timestamp
                       = Len(CallsNoted) - Len(errors.recent) + k
            /\ errors.total = Len(CallsNoted)
            /\ errors.total = SumCounts(errors.by_type)
            /\ \A t \in DOMAIN errors.by_type :
                   errors.by_type[t]
                       = Cardinality({k \in 1..Len(CallsNoted) :
                                          CallsNoted[k].type = t})

\* twelve errors of two types were logged: the first two have been dropped
C29_TwoDropped ==
    /\ ret.op = "log_error"
    /\ performance_metrics.errors.total = 12
    /\ Len(performance_metrics.errors.recent) = RecentLimit
    /\ performance_metrics.errors.recent[1].timestamp = 3
    /\ Cardinality(DOMAIN performance_metrics.errors.by_type) = 2

\* ------------------------------------------------------------------ C30
\* the catalog comet a request names, when there is one
Named(request) == FindComet(request.designation)

HasClosedOrbit(request) ==
    /\ InCatalog(request.designation)
    /\ Named(request).elements # None
    /\ Named(request).elements[1].eccentricity < S

\* C30: a request for a catalog comet with elements and e < 1 is answered
\* with the trajectory (the requested number of points) and the final state;
\* an error response is given only for an unknown comet, a comet without
\* elements or a propagation that fails; and the trajectory_calculations
\* counters move only in requests answered with a trajectory.
C30_TrajectoryServed ==
    /\ [](http.pc = "responded" =>
              LET request == http.request[1]
                  response == http.response[1]
              IN  /\ HasClosedOrbit(request) =>
                         /\ response.status = 200
                         /\ response.body[1].points = request.points
                         /\ Len(response.body[1].trajectory) = request.points
                         /\ response.body[1].final_state.time
                                = response.body[1].end_time
                  /\ response.status # 200 =>
                         \/ ~InCatalog(request.designation)
                         \/ Named(request).elements = None
                         \/ ~TryTrajectory(Named(request), request).propagated)
    /\ [][performance_metrics'.trajectory_calculations
              # performance_metrics.trajectory_calculations
              => http'.response[1].status = 200]_vars

\* the error answers for an unknown comet (404), a comet without elements
\* (400) and a hyperbolic comet (500) leave the counters alone
C30_RefusalsNotCounted ==
    (http.pc = "responded" /\ ~HasClosedOrbit(http.request[1])) =>
        /\ http.response[1].status
               = (IF ~InCatalog(http.request[1].designation) THEN 404
                  ELSE IF Named(http.request[1]).elements = None THEN 400
                  ELSE 500)
        /\ performance_metrics.trajectory_calculations.total
               <= Cardinality({k \in 1..Len(performance_metrics.errors.recent) :
                      performance_metrics.errors.recent[k].details.designation
                          = CometA.designation})

\* a two-body request for 1P (e = 0.5) was answered 500 after its ten points
\* and its final state had been computed and counted
C30_CountedThenRefused ==
    /\ http.pc = "responded"
    /\ http.request[1] = TrajectoryRequest("1P", 60, 10, "twobody")
    /\ TryTrajectory(CometA, http.request[1]).propagated
    /\ http.response[1].status = 500
    /\ performance_metrics.trajectory_calculations.total = 1
    /\ performance_metrics.trajectory_calculations.twobody.count = 1
    /\ performance_metrics.errors.recent[1].type = "TrajectoryCalculationError"
    /\ performance_metrics.errors.recent[1].details.error = ToDictMsg

====
